---- MODULE Spec2Model ----
(***************************************************************************)
(* EROM System: the append-only ledgers (agent consignment debt, inventory *)
(* movements), the settlement of payments, the aging report and the        *)
(* reconciliation workflow, as implemented by the Django views, models and *)
(* serializers under backend/apps.                                         *)
(*                                                                         *)
(* Money is counted in whole currency units (the DecimalField values used  *)
(* are exact, so integers model them without rounding).  Time is counted   *)
(* in days.  Every HTTP request is a process in a slot of reqs: a handler  *)
(* is split where the code reads the database and where it writes, so that *)
(* two requests can interleave exactly where the code allows it.           *)
(***************************************************************************)
EXTENDS Integers, Sequences, FiniteSets, TLC

VARIABLES
    products,    \* Product rows: id -> row
    movements,   \* InventoryMovement rows, in insertion order (id = index)
    agents,      \* Agent rows: id -> row
    ledger,      \* AgentLedger rows, in insertion order (id = index)
    payments,    \* AgentPayment rows, in insertion order (id = index)
    recon,       \* the Reconciliation row and its ReconciliationItem rows
    transactions,       \* Transaction rows, in insertion order (id = index)
    transaction_items,  \* TransactionItem rows, in insertion order
    users,       \* User rows: id -> row
    issued,      \* how many session tokens secrets.token_urlsafe has made
    now,         \* timezone.now(), in half days
    reqs         \* requests in flight and their responses: slot -> request

dbVars == <<products, movements, ledger, payments, recon, transactions,
            transaction_items>>

vars == <<dbVars, agents, users, issued, now, reqs>>

----------------------------------------------------------------------------
(* Bounds of the model *)

MaxLedger == 3
MaxPayments == 2
MaxMovements == 4
MaxNow == 181
MaxTokens == 3

AgentIds == {1, 2}
ProductIds == {1, 2}
Slots == {1, 2}

\* payment_date of an entry that is not settled (null=True)
NULL == -1

----------------------------------------------------------------------------
(* Helpers *)

RECURSIVE SumSet(_, _)
SumSet(S, f) ==
    IF S = {} THEN 0
    ELSE LET x == CHOOSE y \in S : TRUE IN f[x] + SumSet(S \ {x}, f)

Min(a, b) == IF a <= b THEN a ELSE b

Ids(seq) == DOMAIN seq

\* the database as one value, for the operators that write several tables
DB == [products |-> products, movements |-> movements, ledger |-> ledger,
       payments |-> payments, recon |-> recon, transactions |-> transactions,
       transaction_items |-> transaction_items]

----------------------------------------------------------------------------
(* Agent (agents/models.py) *)

\* Agent.total_debt: Sum('debt_amount') over ledger_entries with is_paid=False
total_debt(L, a) ==
    SumSet({i \in Ids(L) : L[i].agent = a /\ ~L[i].is_paid},
           [i \in Ids(L) |-> L[i].debt_amount])

\* Agent.can_take_more_stock
can_take_more_stock(A, L, a) ==
    IF A[a].credit_limit = 0 THEN TRUE
    ELSE total_debt(L, a) < A[a].credit_limit

\* timezone.timedelta(days=n); the clock counts half days
days(n) == 2 * n

\* the keys of the dictionary get_debt_by_age returns
Buckets == {"0-7", "8-30", "31-60", "61-90", "90+"}

\* the filters of get_debt_by_age with every __gte and __lt bound moved by
\* one comparison (__gt and __lte)
OlderWindow(b, transfer_date, t) ==
    CASE b = "0-7" -> transfer_date > t - days(7)
      [] b = "8-30" -> transfer_date > t - days(30) /\ transfer_date <= t - days(7)
      [] b = "31-60" -> transfer_date > t - days(60) /\ transfer_date <= t - days(30)
      [] b = "61-90" -> transfer_date > t - days(90) /\ transfer_date <= t - days(60)
      [] b = "90+" -> transfer_date <= t - days(90)

\* the filters of get_debt_by_age with every __lt bound turned into __lte:
\* two neighbouring buckets share their boundary
ClosedWindow(b, transfer_date, t) ==
    CASE b = "0-7" -> transfer_date >= t - days(7)
      [] b = "8-30" -> transfer_date >= t - days(30) /\ transfer_date <= t - days(7)
      [] b = "31-60" -> transfer_date >= t - days(60) /\ transfer_date <= t - days(30)
      [] b = "61-90" -> transfer_date >= t - days(90) /\ transfer_date <= t - days(60)
      [] b = "90+" -> transfer_date <= t - days(90)

\* the transfer_date filters of get_debt_by_age, evaluated at time t
Window(b, transfer_date, t) ==
    CASE b = "0-7" -> transfer_date >= t - days(7)
      [] b = "8-30" -> transfer_date >= t - days(30) /\ transfer_date < t - days(7)
      [] b = "31-60" -> transfer_date >= t - days(60) /\ transfer_date < t - days(30)
      [] b = "61-90" -> transfer_date >= t - days(90) /\ transfer_date < t - days(60)
      [] b = "90+" -> transfer_date < t - days(90)

\* Agent.get_debt_by_age at time t: per bucket, Sum('debt_amount') over the
\* agent's entries with is_paid=False in the bucket's window
get_debt_by_age(L, a, t) ==
    [b \in Buckets |->
        SumSet({i \in Ids(L) : /\ L[i].agent = a
                               /\ ~L[i].is_paid
                               /\ Window(b, L[i].transfer_date, t)},
               [i \in Ids(L) |-> L[i].debt_amount])]

\* AgentLedger.remaining_debt
remaining_debt(e) == e.debt_amount - e.paid_amount

----------------------------------------------------------------------------
(* The database: rows are written one at a time; the writes of a          *)
(* `with transaction.atomic()` block become visible together or not at all *)

\* InventoryMovement.objects.create(...)
MovementWrite(p, type, delta, ref) ==
    [kind |-> "movement", product |-> p, movement_type |-> type,
     quantity_delta |-> delta, reference_id |-> ref]

\* AgentLedger.objects.create(...)
LedgerWrite(a, p, q, price, debt) ==
    [kind |-> "ledger", agent |-> a, product |-> p, quantity |-> q,
     unit_price |-> price, debt_amount |-> debt]

\* product.save(update_fields=[...]): values maps the saved fields to the
\* values held by the in-memory object
ProductWrite(p, values) == [kind |-> "product", id |-> p, values |-> values]

\* entry.save(update_fields=['paid_amount', 'is_paid', 'payment_date'])
EntryWrite(i, paid, isPaid, date) ==
    [kind |-> "entry", id |-> i, paid_amount |-> paid, is_paid |-> isPaid,
     payment_date |-> date]

\* AgentPayment.objects.create(...)
PaymentWrite(a, amount, t) ==
    [kind |-> "payment", agent |-> a, amount |-> amount, created_at |-> t]

\* item.save(update_fields=['correction_created', 'correction_approved'])
ItemWrite(p) == [kind |-> "item", product |-> p]

\* Transaction.objects.create(...)
TransactionWrite(subtotal, amount_paid) ==
    [kind |-> "transaction", subtotal |-> subtotal, amount_paid |-> amount_paid]

\* TransactionItem.objects.create(transaction=txn, ...)
TransactionItemWrite(p, q, price) ==
    [kind |-> "transaction_item", product |-> p, quantity |-> q, unit_price |-> price]

\* timezone.now().strftime('%Y%m%d'): the day of instant t (the clock
\* counts half days)
strftime(t) == t \div 2

\* the decimal digits of n >= 0
RECURSIVE Digits(_)
Digits(n) == IF n < 10 THEN <<n>> ELSE Append(Digits(n \div 10), n % 10)

\* f'{new_num:04d}': the digits of n, padded with zeros on the left to a
\* width of at least 4
Format04d(n) ==
    LET ds == Digits(n)
    IN  [i \in 1 .. (IF Len(ds) < 4 THEN 4 - Len(ds) ELSE 0) |-> 0] \o ds

\* int(s) of a string of digits
RECURSIVE int(_)
int(ds) ==
    IF ds = <<>> THEN 0
    ELSE 10 * int(SubSeq(ds, 1, Len(ds) - 1)) + ds[Len(ds)]

\* a < b in the order of a CharField: character by character, a proper
\* prefix first
RECURSIVE StrLess(_, _)
StrLess(a, b) ==
    IF b = <<>> THEN FALSE
    ELSE IF a = <<>> THEN TRUE
    ELSE IF Head(a) # Head(b) THEN Head(a) < Head(b)
    ELSE StrLess(Tail(a), Tail(b))

\* Transaction.objects.filter(transaction_id__startswith=f'TXN-{today}')
\* .order_by('-transaction_id').first() over the rows lo .. hi of T: the
\* index of the row of the day with the greatest transaction_id, 0 if none
RECURSIVE last_txn(_, _, _, _)
last_txn(T, today, lo, hi) ==
    IF lo > hi THEN 0
    ELSE IF lo = hi THEN (IF T[lo].transaction_id.day = today THEN lo ELSE 0)
    ELSE LET mid == (lo + hi) \div 2
             l == last_txn(T, today, lo, mid)
             r == last_txn(T, today, mid + 1, hi)
         IN  IF l = 0 THEN r
             ELSE IF r = 0 THEN l
             ELSE IF StrLess(T[l].transaction_id.seq, T[r].transaction_id.seq)
                  THEN r ELSE l

\* Transaction.save: the number after the one of last_txn, or 1
new_num(T, today) ==
    LET last == last_txn(T, today, 1, Len(T))
    IN  IF last = 0 THEN 1 ELSE int(T[last].transaction_id.seq) + 1

\* the transaction_id Transaction.save gives a new row: 'TXN-<day>-<seq>'
new_transaction_id(T, t) ==
    [day |-> strftime(t), seq |-> Format04d(new_num(T, strftime(t)))]

\* transaction_id is unique=True: the INSERT of a row whose id is taken
\* raises IntegrityError
IntegrityError(T, id) == \E i \in DOMAIN T : T[i].transaction_id = id

\* mutant: the movement of a product is kept as one row that each new
\* movement of the product overwrites
MovementUpsert(M, row) ==
    IF \E i \in Ids(M) : M[i].product = row.product
    THEN [M EXCEPT ![CHOOSE i \in Ids(M) : M[i].product = row.product
                                          /\ \A j \in Ids(M) :
                                                 M[j].product = row.product => j <= i]
                       = row]
    ELSE Append(M, row)

\* InventoryMovement.objects.create(...) is an INSERT: the table gets one
\* more row and the rows it has are left alone
MovementInsert(M, row) == Append(M, row)

\* one row written to database d at time t
Apply(d, w, t) ==
    CASE w.kind = "movement" ->
           [d EXCEPT !.movements = MovementInsert(@,
               [product |-> w.product, movement_type |-> w.movement_type,
                quantity_delta |-> w.quantity_delta,
                reference_id |-> w.reference_id])]
      [] w.kind = "ledger" ->
           [d EXCEPT !.ledger = Append(@,
               [agent |-> w.agent, product |-> w.product,
                quantity |-> w.quantity, unit_price |-> w.unit_price,
                debt_amount |-> w.debt_amount, transfer_date |-> t,
                is_paid |-> FALSE, paid_amount |-> 0, payment_date |-> NULL,
                inventory_movement_id |-> Len(d.movements)])]
      [] w.kind = "product" ->
           [d EXCEPT !.products[w.id] =
               [f \in DOMAIN @ |->
                   IF f \in DOMAIN w.values THEN w.values[f] ELSE @[f]]]
      [] w.kind = "entry" ->
           [d EXCEPT !.ledger[w.id].paid_amount = w.paid_amount,
                     !.ledger[w.id].is_paid = w.is_paid,
                     !.ledger[w.id].payment_date = w.payment_date]
      [] w.kind = "payment" ->
           [d EXCEPT !.payments = Append(@,
               [agent |-> w.agent, amount |-> w.amount,
                created_at |-> w.created_at])]
      [] w.kind = "transaction" ->
           [d EXCEPT !.transactions = Append(@,
               [transaction_id |-> new_transaction_id(d.transactions, t),
                transaction_type |-> "sale", subtotal |-> w.subtotal,
                total_amount |-> w.subtotal, amount_paid |-> w.amount_paid,
                change_given |-> w.amount_paid - w.subtotal])]
      [] w.kind = "transaction_item" ->
           [d EXCEPT !.transaction_items = Append(@,
               [transaction |-> Len(d.transactions), product |-> w.product,
                quantity |-> w.quantity, unit_price |-> w.unit_price,
                line_total |-> w.unit_price * w.quantity])]
      [] w.kind = "item" ->
           [d EXCEPT !.recon.items[w.product].correction_created = TRUE,
                     !.recon.items[w.product].correction_approved = TRUE]

RECURSIVE ApplyAll(_, _, _)
ApplyAll(d, writes, t) ==
    IF writes = <<>> THEN d
    ELSE ApplyAll(Apply(d, Head(writes), t), Tail(writes), t)

\* writes made in autocommit mode (no transaction.atomic()): those made
\* before the exception at write failAt stay (failAt = 0: no exception)
Autocommit(d, writes, failAt, t) ==
    ApplyAll(d, IF failAt = 0 THEN writes ELSE SubSeq(writes, 1, failAt - 1), t)

\* a block that is not wrapped in transaction.atomic(): the writes made
\* before the exception stay
AtomicKeepsPrefix(d, writes, failAt, t) ==
    Autocommit(d, writes, failAt, t)

\* with transaction.atomic(): an exception at write failAt rolls back the
\* whole block (failAt = 0: no exception, the block commits)
Atomic(d, writes, failAt, t) ==
    IF failAt = 0 THEN ApplyAll(d, writes, t) ELSE d

\* the database after a handler step
Commit(d) ==
    /\ products' = d.products
    /\ movements' = d.movements
    /\ ledger' = d.ledger
    /\ payments' = d.payments
    /\ recon' = d.recon
    /\ transactions' = d.transactions
    /\ transaction_items' = d.transaction_items

----------------------------------------------------------------------------
(* Requests *)

NoData == [none |-> TRUE]

Request(op, pc, pk, data, obj, resp) ==
    [op |-> op, pc |-> pc, pk |-> pk, data |-> data, obj |-> obj, resp |-> resp]

Idle == Request("none", "idle", 0, NoData, NoData, NoData)

\* a slot is free when it holds no request or a finished one
Free(s) == reqs[s].pc \in {"idle", "done"}

Done(s, op) == reqs[s].op = op /\ reqs[s].pc = "done"

Respond(s, op, pk, data, resp) ==
    reqs' = [reqs EXCEPT ![s] = Request(op, "done", pk, data, NoData, resp)]

Error(status, error) == [status |-> status, error |-> error]

\* requests in flight of one operation
Pending(op) == Cardinality({s \in Slots : reqs[s].op = op /\ ~Free(s)})

\* the movements a request in flight is still going to insert
Reserved(r) ==
    CASE r.op = "transfer_stock" /\ r.pc = "validated" -> 1
      [] r.op = "adjust_stock" /\ r.pc = "loaded" -> 1
      [] r.op = "create_sale" /\ r.pc = "validated" -> Len(r.data.items)
      [] r.op = "create_corrections" /\ r.pc = "tx" -> Cardinality(r.obj.items)
      [] OTHER -> 0

\* the sales of a busy day: SoldBefore sales were made today before the
\* first state of SpecTxn, one short of filling the four digits of the id
SoldBefore == 9998

\* the movements the log held in the first state
Backlog == IF Len(movements) >= SoldBefore THEN SoldBefore ELSE 0

\* the model stops accepting requests that would let the movement log
\* outgrow MaxMovements
MovementsRoom(n) ==
    Len(movements) - Backlog + SumSet(Slots, [s \in Slots |-> Reserved(reqs[s])]) + n
        <= MaxMovements

----------------------------------------------------------------------------
(* Users and sessions (core/models.py, core/authentication.py,             *)
(* core/views.py)                                                          *)

UserIds == {1, 2}

\* session_token = '' (blank=True): no session; the tokens that
\* secrets.token_urlsafe(32) makes are numbered 1, 2, ... in the order made
NoToken == 0

\* timezone.timedelta(hours=n); the clock counts half days
hours(n) == n \div 12

UserRow(role) ==
    [is_active |-> TRUE, role |-> role, session_token |-> NoToken,
     session_expires_at |-> NULL]

\* the users of the installation: the owner and a cashier
Staff == [u \in UserIds |-> IF u = 1 THEN UserRow("owner") ELSE UserRow("cashier")]

\* User.generate_session_token at instant t, token being the fresh one
generate_session_token(U, u, token, t) ==
    [U EXCEPT ![u].session_token = token,
              ![u].session_expires_at = t + hours(12)]

\* mutant: a session is valid whenever the user has a token
is_session_valid_forever(row, t) ==
    row.session_token # NoToken /\ row.session_expires_at # NULL

\* User.is_session_valid at instant t
is_session_valid(row, t) ==
    IF row.session_token = NoToken \/ row.session_expires_at = NULL THEN FALSE
    ELSE t < row.session_expires_at

\* DesktopTokenAuthentication.authenticate for the header 'Token <token>':
\* User.objects.get(session_token=token, is_active=True), then the expiry
authenticate(U, token, t) ==
    LET found == {u \in UserIds : U[u].session_token = token /\ U[u].is_active}
    IN  IF found = {} THEN [error |-> "invalid_token"]
        ELSE IF Cardinality(found) > 1 THEN [error |-> "multiple_objects_returned"]
        ELSE LET user == CHOOSE u \in found : TRUE
             IN  IF ~is_session_valid(U[user], t) THEN [error |-> "token_expired"]
                 ELSE [error |-> "ok", user |-> user]

\* the response to a request whose authentication failed
Unauthenticated(a) ==
    Error(IF a.error = "multiple_objects_returned" THEN 500 ELSE 401, a.error)

\* login: password_ok is what check_password returns
Login(s, u, password_ok) ==
    /\ Free(s)
    /\ issued < MaxTokens
    /\ IF users[u].is_active /\ password_ok
       THEN /\ users' = generate_session_token(users, u, issued + 1, now)
            /\ issued' = issued + 1
            /\ Respond(s, "login", u, NoData,
                   [status |-> 200, error |-> "none", token |-> issued + 1])
       ELSE /\ Respond(s, "login", u, NoData, Error(401, "invalid_credentials"))
            /\ UNCHANGED <<users, issued>>
    /\ UNCHANGED <<dbVars, agents, now>>

\* me: any view behind IsAuthenticated
Me(s, token) ==
    /\ Free(s)
    /\ LET a == authenticate(users, token, now)
       IN  IF a.error # "ok"
           THEN Respond(s, "me", 0, [token |-> token], Unauthenticated(a))
           ELSE Respond(s, "me", 0, [token |-> token],
                    [status |-> 200, error |-> "none", user |-> a.user])
    /\ UNCHANGED <<dbVars, agents, users, issued, now>>

\* logout
Logout(s, token) ==
    /\ Free(s)
    /\ LET a == authenticate(users, token, now)
       IN  IF a.error # "ok"
           THEN /\ Respond(s, "logout", 0, [token |-> token], Unauthenticated(a))
                /\ UNCHANGED users
           ELSE /\ users' = [users EXCEPT ![a.user].session_token = NoToken,
                                          ![a.user].session_expires_at = NULL]
                /\ Respond(s, "logout", 0, [token |-> token],
                       [status |-> 200, error |-> "none", user |-> a.user])
    /\ UNCHANGED <<dbVars, agents, issued, now>>

\* UserViewSet.partial_update (IsOwner): is_active is the writable field
UserUpdate(s, token, pk, is_active) ==
    /\ Free(s)
    /\ LET a == authenticate(users, token, now)
           data == [token |-> token, is_active |-> is_active]
       IN  IF a.error # "ok"
           THEN /\ Respond(s, "user_update", pk, data, Unauthenticated(a))
                /\ UNCHANGED users
           ELSE IF users[a.user].role # "owner"
           THEN /\ Respond(s, "user_update", pk, data,
                       [status |-> 403, error |-> "permission_denied",
                        user |-> a.user])
                /\ UNCHANGED users
           ELSE /\ users' = [users EXCEPT ![pk].is_active = is_active]
                /\ Respond(s, "user_update", pk, data,
                       [status |-> 200, error |-> "none", user |-> a.user])
    /\ UNCHANGED <<dbVars, agents, issued, now>>

----------------------------------------------------------------------------
(* transfer_stock (agents/views.py, agents/serializers.py) *)

\* validate without the comparison of quantity_in_stock with quantity
validate_without_stock_check(A, P, L, data) ==
    LET product == P[data.product_id]
        debt_amount == data.quantity * data.unit_price
    IN  IF ~(data.agent_id \in AgentIds /\ A[data.agent_id].is_active)
        THEN [error |-> "agent_not_found"]
        ELSE IF ~(data.product_id \in ProductIds /\ product.exists /\ product.is_active)
        THEN [error |-> "product_not_found"]
        ELSE IF /\ ~can_take_more_stock(A, L, data.agent_id)
                /\ A[data.agent_id].credit_limit > 0
                /\ total_debt(L, data.agent_id) + debt_amount
                       > A[data.agent_id].credit_limit
        THEN [error |-> "credit_limit_exceeded"]
        ELSE [error |-> "ok", product |-> product, debt_amount |-> debt_amount]

\* validate that compares total_debt + debt_amount with credit_limit for
\* every agent, the unlimited ones included
validate_limit_always(A, P, L, data) ==
    LET product == P[data.product_id]
        debt_amount == data.quantity * data.unit_price
    IN  IF ~(data.agent_id \in AgentIds /\ A[data.agent_id].is_active)
        THEN [error |-> "agent_not_found"]
        ELSE IF ~(data.product_id \in ProductIds /\ product.exists /\ product.is_active)
        THEN [error |-> "product_not_found"]
        ELSE IF product.quantity_in_stock < data.quantity
        THEN [error |-> "insufficient_stock"]
        ELSE IF total_debt(L, data.agent_id) + debt_amount
                    > A[data.agent_id].credit_limit
        THEN [error |-> "credit_limit_exceeded"]
        ELSE [error |-> "ok", product |-> product, debt_amount |-> debt_amount]

\* StockTransferSerializer.validate: the reason of the ValidationError, or
\* "ok" with the Product object it loaded and the debt it computed
validate(A, P, L, data) ==
    LET product == P[data.product_id]
        debt_amount == data.quantity * data.unit_price
    IN  IF ~(data.agent_id \in AgentIds /\ A[data.agent_id].is_active)
        THEN [error |-> "agent_not_found"]
        ELSE IF ~(data.product_id \in ProductIds /\ product.exists /\ product.is_active)
        THEN [error |-> "product_not_found"]
        ELSE IF product.quantity_in_stock < data.quantity
        THEN [error |-> "insufficient_stock"]
        ELSE IF /\ ~can_take_more_stock(A, L, data.agent_id)
                /\ A[data.agent_id].credit_limit > 0
                /\ total_debt(L, data.agent_id) + debt_amount
                       > A[data.agent_id].credit_limit
        THEN [error |-> "credit_limit_exceeded"]
        ELSE [error |-> "ok", product |-> product, debt_amount |-> debt_amount]

\* the three writes of the atomic block of transfer_stock, from the Product
\* object loaded by the serializer
TransferWrites(agent, data, obj) ==
    << MovementWrite(data.product_id, "transfer_to_agent", -data.quantity, "AGENT_TRANSFER"),
       LedgerWrite(agent, data.product_id, data.quantity, data.unit_price, obj.debt_amount),
       ProductWrite(data.product_id,
           [quantity_in_stock |-> obj.product.quantity_in_stock - data.quantity,
            quantity_in_field |-> obj.product.quantity_in_field + data.quantity]) >>

\* agent = self.get_object(); serializer.is_valid(raise_exception=True)
TransferStockValidate(s, pk, agent_id, product_id, quantity, unit_price) ==
    /\ Free(s)
    /\ Len(ledger) + Pending("transfer_stock") < MaxLedger
    /\ MovementsRoom(1)
    /\ LET data == [agent_id |-> agent_id, product_id |-> product_id,
                    quantity |-> quantity, unit_price |-> unit_price]
           v == validate(agents, products, ledger, data)
       IN  IF v.error # "ok"
           THEN Respond(s, "transfer_stock", pk, data, Error(400, v.error))
           ELSE reqs' = [reqs EXCEPT ![s] =
                    Request("transfer_stock", "validated", pk, data, v, NoData)]
    /\ UNCHANGED <<dbVars, agents, users, issued, now>>

\* with transaction.atomic(): movement, ledger entry, product.save(); then
\* the response, whose new_agent_debt reads agent.total_debt after the block
TransferStockWrite(s, failAt) ==
    /\ reqs[s].op = "transfer_stock" /\ reqs[s].pc = "validated"
    /\ LET r == reqs[s]
           d == Atomic(DB, TransferWrites(r.pk, r.data, r.obj), failAt, now)
       IN  /\ Commit(d)
           /\ IF failAt = 0
              THEN Respond(s, "transfer_stock", r.pk, r.data,
                       [status |-> 201, error |-> "none",
                        ledger_entry |-> Len(d.ledger),
                        new_agent_debt |-> total_debt(d.ledger, r.pk) + r.obj.debt_amount])
              ELSE Respond(s, "transfer_stock", r.pk, r.data, Error(500, "exception"))
    /\ now' = IF failAt = 0 THEN now + 1 ELSE now
    /\ UNCHANGED <<agents, users, issued>>

\* debt_summary: total_debt, debt_by_age and the number of unpaid entries
DebtSummary(s, pk) ==
    /\ Free(s)
    /\ Respond(s, "debt_summary", pk, NoData,
           [status |-> 200, error |-> "none",
            total_debt |-> total_debt(ledger, pk),
            debt_by_age |-> get_debt_by_age(ledger, pk, now),
            unpaid_entries_count |->
                Cardinality({i \in Ids(ledger) :
                                 ledger[i].agent = pk /\ ~ledger[i].is_paid})])
    /\ UNCHANGED <<dbVars, agents, users, issued, now>>

\* the clock (timezone.now()) reaches instant t
Tick(t) ==
    /\ now < t /\ t <= MaxNow
    /\ now' = t
    /\ UNCHANGED <<dbVars, agents, users, issued, reqs>>

----------------------------------------------------------------------------
(* record_payment (agents/views.py) *)

\* mutant: the default ordering of AgentLedger ('-transfer_date') is used
RECURSIVE order_by_newest_first(_, _)
order_by_newest_first(L, S) ==
    IF S = {} THEN <<>>
    ELSE LET first == CHOOSE i \in S : \A j \in S :
                          \/ L[i].transfer_date > L[j].transfer_date
                          \/ (L[i].transfer_date = L[j].transfer_date /\ i >= j)
         IN  <<first>> \o order_by_newest_first(L, S \ {first})

\* QuerySet.order_by('transfer_date') over the entries S of ledger L
RECURSIVE order_by_transfer_date(_, _)
order_by_transfer_date(L, S) ==
    IF S = {} THEN <<>>
    ELSE LET first == CHOOSE i \in S : \A j \in S :
                          \/ L[i].transfer_date < L[j].transfer_date
                          \/ (L[i].transfer_date = L[j].transfer_date /\ i <= j)
         IN  <<first>> \o order_by_transfer_date(L, S \ {first})

\* the query of the targeted entries without agent=agent
SelectEntriesAnyAgent(L, agent, specific_entries) ==
    IF specific_entries # {}
    THEN {i \in Ids(L) : i \in specific_entries /\ ~L[i].is_paid}
    ELSE {i \in Ids(L) : L[i].agent = agent /\ ~L[i].is_paid}

\* the entries the payment is applied to: the named unpaid entries of the
\* agent, or (no list, or an empty one) all unpaid entries of the agent
SelectEntries(L, agent, specific_entries) ==
    IF specific_entries # {}
    THEN {i \in Ids(L) : i \in specific_entries /\ L[i].agent = agent /\ ~L[i].is_paid}
    ELSE {i \in Ids(L) : L[i].agent = agent /\ ~L[i].is_paid}

\* mutant: the loop forgets `remaining_amount -= payment_to_apply`
RECURSIVE ApplyPaymentNoDecrement(_, _, _, _)
ApplyPaymentNoDecrement(L, entries, remaining_amount, created_at) ==
    IF entries = <<>> \/ remaining_amount <= 0
    THEN [remaining_amount |-> remaining_amount, writes |-> <<>>]
    ELSE LET entry == L[Head(entries)]
             payment_to_apply == Min(remaining_amount, remaining_debt(entry))
             paid_amount == entry.paid_amount + payment_to_apply
             settled == paid_amount >= entry.debt_amount
             w == EntryWrite(Head(entries), paid_amount,
                             IF settled THEN TRUE ELSE entry.is_paid,
                             IF settled THEN created_at ELSE entry.payment_date)
             rest == ApplyPaymentNoDecrement(L, Tail(entries), remaining_amount,
                                             created_at)
         IN  [remaining_amount |-> rest.remaining_amount,
              writes |-> <<w>> \o rest.writes]

\* mutant: the loop stamps payment_date on every entry it touches
RECURSIVE ApplyPaymentDatesAll(_, _, _, _)
ApplyPaymentDatesAll(L, entries, remaining_amount, created_at) ==
    IF entries = <<>> \/ remaining_amount <= 0
    THEN [remaining_amount |-> remaining_amount, writes |-> <<>>]
    ELSE LET entry == L[Head(entries)]
             payment_to_apply == Min(remaining_amount, remaining_debt(entry))
             paid_amount == entry.paid_amount + payment_to_apply
             settled == paid_amount >= entry.debt_amount
             w == EntryWrite(Head(entries), paid_amount,
                             IF settled THEN TRUE ELSE entry.is_paid, created_at)
             rest == ApplyPaymentDatesAll(L, Tail(entries),
                                          remaining_amount - payment_to_apply,
                                          created_at)
         IN  [remaining_amount |-> rest.remaining_amount,
              writes |-> <<w>> \o rest.writes]

\* the loop without min(remaining_amount, entry_remaining): the whole of
\* what is left goes to the entry at hand
RECURSIVE ApplyPaymentUncapped(_, _, _, _)
ApplyPaymentUncapped(L, entries, remaining_amount, created_at) ==
    IF entries = <<>> \/ remaining_amount <= 0
    THEN [remaining_amount |-> remaining_amount, writes |-> <<>>]
    ELSE LET entry == L[Head(entries)]
             payment_to_apply == remaining_amount
             paid_amount == entry.paid_amount + payment_to_apply
             settled == paid_amount >= entry.debt_amount
             w == EntryWrite(Head(entries), paid_amount,
                             IF settled THEN TRUE ELSE entry.is_paid,
                             IF settled THEN created_at ELSE entry.payment_date)
             rest == ApplyPaymentUncapped(L, Tail(entries),
                                          remaining_amount - payment_to_apply, created_at)
         IN  [remaining_amount |-> rest.remaining_amount,
              writes |-> <<w>> \o rest.writes]

\* the loop `for entry in entries`: the entry writes and what is left
RECURSIVE ApplyPayment(_, _, _, _)
ApplyPayment(L, entries, remaining_amount, created_at) ==
    IF entries = <<>> \/ remaining_amount <= 0
    THEN [remaining_amount |-> remaining_amount, writes |-> <<>>]
    ELSE LET entry == L[Head(entries)]
             entry_remaining == remaining_debt(entry)
             payment_to_apply == Min(remaining_amount, entry_remaining)
             paid_amount == entry.paid_amount + payment_to_apply
             settled == paid_amount >= entry.debt_amount
             w == EntryWrite(Head(entries), paid_amount,
                             IF settled THEN TRUE ELSE entry.is_paid,
                             IF settled THEN created_at ELSE entry.payment_date)
             rest == ApplyPayment(L, Tail(entries),
                                  remaining_amount - payment_to_apply, created_at)
         IN  [remaining_amount |-> rest.remaining_amount,
              writes |-> <<w>> \o rest.writes]

\* record_payment that stores only the allocated part of the amount in the
\* payment row
RecordPaymentApplyAllocated(s, pk, amount, specific_entries) ==
    /\ Free(s)
    /\ Len(payments) + Pending("record_payment") < MaxPayments
    /\ LET data == [amount |-> amount, ledger_entries |-> specific_entries]
           entries == order_by_transfer_date(ledger,
                          SelectEntries(ledger, pk, specific_entries))
           applied == ApplyPayment(ledger, entries, amount, now)
       IN  reqs' = [reqs EXCEPT ![s] = Request("record_payment", "tx", pk, data,
                       [writes |-> <<PaymentWrite(pk, amount - applied.remaining_amount,
                                                  now)>> \o applied.writes,
                        remaining_amount |-> applied.remaining_amount], NoData)]
    /\ UNCHANGED <<dbVars, agents, users, issued, now>>

\* inside the atomic block: the payment row, the query and the loop
RecordPaymentApply(s, pk, amount, specific_entries) ==
    /\ Free(s)
    /\ Len(payments) + Pending("record_payment") < MaxPayments
    /\ LET data == [amount |-> amount, ledger_entries |-> specific_entries]
           entries == order_by_transfer_date(ledger,
                          SelectEntries(ledger, pk, specific_entries))
           applied == ApplyPayment(ledger, entries, amount, now)
       IN  reqs' = [reqs EXCEPT ![s] = Request("record_payment", "tx", pk, data,
                       [writes |-> <<PaymentWrite(pk, amount, now)>> \o applied.writes,
                        remaining_amount |-> applied.remaining_amount], NoData)]
    /\ UNCHANGED <<dbVars, agents, users, issued, now>>

\* leaving the atomic block, and the response
RecordPaymentCommit(s, failAt) ==
    /\ reqs[s].op = "record_payment" /\ reqs[s].pc = "tx"
    /\ LET r == reqs[s]
           d == Atomic(DB, r.obj.writes, failAt, now)
       IN  /\ Commit(d)
           /\ IF failAt = 0
              THEN Respond(s, "record_payment", r.pk, r.data,
                       [status |-> 201, error |-> "none",
                        payment |-> Len(d.payments),
                        amount_applied |-> r.data.amount - r.obj.remaining_amount,
                        amount_remaining |-> r.obj.remaining_amount,
                        updated_entries_count |-> Len(r.obj.writes) - 1,
                        new_total_debt |-> total_debt(d.ledger, r.pk)])
              ELSE Respond(s, "record_payment", r.pk, r.data, Error(500, "exception"))
    /\ UNCHANGED <<agents, users, issued, now>>

----------------------------------------------------------------------------
(* Products (inventory/views.py, inventory/serializers.py) *)

NoProduct == [exists |-> FALSE, is_active |-> FALSE,
              quantity_in_stock |-> 0, quantity_in_field |-> 0]

\* ProductViewSet.create with ProductCreateUpdateSerializer, whose fields
\* include quantity_in_stock
ProductCreate(s, p, quantity_in_stock) ==
    /\ Free(s)
    /\ ~products[p].exists
    /\ products' = [products EXCEPT ![p] =
           [exists |-> TRUE, is_active |-> TRUE,
            quantity_in_stock |-> quantity_in_stock, quantity_in_field |-> 0]]
    /\ Respond(s, "product_create", p, [quantity_in_stock |-> quantity_in_stock],
               [status |-> 201, error |-> "none"])
    /\ UNCHANGED <<movements, agents, users, issued, ledger, payments, recon, transactions,
                   transaction_items, now>>

\* ProductViewSet.partial_update with ProductCreateUpdateSerializer
ProductUpdate(s, p, quantity_in_stock) ==
    /\ Free(s)
    /\ products[p].exists
    /\ products' = [products EXCEPT ![p].quantity_in_stock = quantity_in_stock]
    /\ Respond(s, "product_update", p, [quantity_in_stock |-> quantity_in_stock],
               [status |-> 200, error |-> "none"])
    /\ UNCHANGED <<movements, agents, users, issued, ledger, payments, recon, transactions,
                   transaction_items, now>>

\* adjust_stock: product = self.get_object(); StockAdjustmentSerializer
AdjustStockBegin(s, pk, quantity_delta) ==
    /\ Free(s)
    /\ MovementsRoom(1)
    /\ LET data == [quantity_delta |-> quantity_delta]
       IN  IF ~products[pk].exists
           THEN Respond(s, "adjust_stock", pk, data, Error(404, "product_not_found"))
           ELSE IF quantity_delta = 0
           THEN Respond(s, "adjust_stock", pk, data, Error(400, "zero_delta"))
           ELSE reqs' = [reqs EXCEPT ![s] = Request("adjust_stock", "loaded", pk,
                            data, [product |-> products[pk]], NoData)]
    /\ UNCHANGED <<dbVars, agents, users, issued, now>>

\* adjust_stock: InventoryMovement.objects.create(...), in autocommit mode
AdjustStockMovement(s) ==
    /\ reqs[s].op = "adjust_stock" /\ reqs[s].pc = "loaded"
    /\ Commit(Autocommit(DB,
           <<MovementWrite(reqs[s].pk, "adjustment", reqs[s].data.quantity_delta, "")>>,
           0, now))
    /\ reqs' = [reqs EXCEPT ![s].pc = "moved",
                            ![s].obj = [product |-> @.product,
                                        movement_id |-> Len(movements) + 1]]
    /\ UNCHANGED <<agents, users, issued, now>>

\* adjust_stock: product.quantity_in_stock += quantity_delta; product.save()
AdjustStockSave(s) ==
    /\ reqs[s].op = "adjust_stock" /\ reqs[s].pc = "moved"
    /\ LET r == reqs[s]
           new_quantity == r.obj.product.quantity_in_stock + r.data.quantity_delta
       IN  /\ Commit(Autocommit(DB,
                  <<ProductWrite(r.pk, [quantity_in_stock |-> new_quantity])>>, 0, now))
           /\ Respond(s, "adjust_stock", r.pk, r.data,
                  [status |-> 200, error |-> "none", new_quantity |-> new_quantity,
                   movement_id |-> r.obj.movement_id])
    /\ UNCHANGED <<agents, users, issued, now>>

\* adjust_stock: an exception between its two writes; nothing is rolled back
AdjustStockFail(s) ==
    /\ reqs[s].op = "adjust_stock" /\ reqs[s].pc = "moved"
    /\ Respond(s, "adjust_stock", reqs[s].pk, reqs[s].data, Error(500, "exception"))
    /\ UNCHANGED <<dbVars, agents, users, issued, now>>

----------------------------------------------------------------------------
(* create_sale (sales/views.py, sales/serializers.py) *)

\* CreateSaleSerializer.validate, the loop over the items: each line loads
\* its own Product object; the result is the first error, or the objects
RECURSIVE LoadItems(_, _)
LoadItems(P, items) ==
    IF items = <<>> THEN [error |-> "ok", products |-> <<>>]
    ELSE LET item == Head(items)
             product == P[item.product_id]
         IN  IF ~(item.product_id \in ProductIds /\ product.exists /\ product.is_active)
             THEN [error |-> "product_not_found"]
             ELSE IF product.quantity_in_stock < item.quantity
             THEN [error |-> "insufficient_stock"]
             ELSE LET rest == LoadItems(P, Tail(items))
                  IN  IF rest.error # "ok" THEN rest
                      ELSE [error |-> "ok", products |-> <<product>> \o rest.products]

RECURSIVE Subtotal(_)
Subtotal(items) ==
    IF items = <<>> THEN 0
    ELSE Head(items).quantity * Head(items).unit_price + Subtotal(Tail(items))

\* the writes of the loop over data['items'] in create_sale
RECURSIVE SaleItemWrites(_, _)
SaleItemWrites(items, objs) ==
    IF items = <<>> THEN <<>>
    ELSE LET item == Head(items)
             product == Head(objs)
         IN  << TransactionItemWrite(item.product_id, item.quantity, item.unit_price),
                MovementWrite(item.product_id, "sale", -item.quantity, "TXN"),
                ProductWrite(item.product_id,
                    [quantity_in_stock |-> product.quantity_in_stock - item.quantity]) >>
             \o SaleItemWrites(Tail(items), Tail(objs))

\* serializer.is_valid(raise_exception=True)
CreateSaleValidate(s, items, amount_paid) ==
    /\ Free(s)
    /\ MovementsRoom(Len(items))
    /\ LET data == [items |-> items, amount_paid |-> amount_paid]
           v == LoadItems(products, items)
       IN  IF v.error # "ok"
           THEN Respond(s, "create_sale", 0, data, Error(400, v.error))
           ELSE IF amount_paid < Subtotal(items)
           THEN Respond(s, "create_sale", 0, data, Error(400, "payment_insufficient"))
           ELSE reqs' = [reqs EXCEPT ![s] = Request("create_sale", "validated", 0, data,
                             [products |-> v.products, subtotal |-> Subtotal(items)],
                             NoData)]
    /\ UNCHANGED <<dbVars, agents, users, issued, now>>

\* with transaction.atomic(): the Transaction, then per line the item, the
\* SALE movement and product.save()
CreateSaleWrite(s, failAt) ==
    /\ reqs[s].op = "create_sale" /\ reqs[s].pc = "validated"
    /\ LET r == reqs[s]
           writes == <<TransactionWrite(r.obj.subtotal, r.data.amount_paid)>>
                         \o SaleItemWrites(r.data.items, r.obj.products)
           raised == IF IntegrityError(transactions,
                                       new_transaction_id(transactions, now))
                     THEN 1 ELSE failAt
           d == Atomic(DB, writes, raised, now)
       IN  /\ Commit(d)
           /\ IF raised = 0
              THEN Respond(s, "create_sale", 0, r.data,
                       [status |-> 201, error |-> "none",
                        transaction |-> Len(d.transactions)])
              ELSE Respond(s, "create_sale", 0, r.data, Error(500, "exception"))
    /\ UNCHANGED <<agents, users, issued, now>>

----------------------------------------------------------------------------
(* Reconciliation (sales/views.py, sales/models.py) *)

NoItem == [exists |-> FALSE, system_count |-> 0, physical_count |-> 0,
           variance |-> 0, has_discrepancy |-> FALSE,
           correction_approved |-> FALSE, correction_created |-> FALSE]

NoRecon == [status |-> "none", items |-> [p \in ProductIds |-> NoItem]]

\* save() that stores the item as given, without recomputing
ItemSaveAsGiven(item) == item

\* ReconciliationItem.save: variance and has_discrepancy are recomputed
ItemSave(item) ==
    LET variance == item.physical_count - item.system_count
    IN  [item EXCEPT !.variance = variance, !.has_discrepancy = (variance # 0)]

\* ReconciliationViewSet.create
ReconCreate(s) ==
    /\ Free(s)
    /\ recon.status = "none"
    /\ recon' = [recon EXCEPT !.status = "in_progress"]
    /\ Respond(s, "create", 0, NoData, [status |-> 201, error |-> "none"])
    /\ UNCHANGED <<products, movements, ledger, payments, transactions,
                   transaction_items, agents, users, issued, now>>

\* the item is written only when there is none yet (get_or_create)
get_or_create(item, system_count, physical_count) ==
    IF item.exists THEN item
    ELSE ItemSave([item EXCEPT !.exists = TRUE,
                               !.system_count = system_count,
                               !.physical_count = physical_count])

\* ReconciliationItem.objects.update_or_create(reconciliation, product,
\* defaults={system_count, physical_count}): the row of the pair is created
\* or its two counts are overwritten, and save() runs
update_or_create(item, system_count, physical_count) ==
    ItemSave([item EXCEPT !.exists = TRUE,
                          !.system_count = system_count,
                          !.physical_count = physical_count])

\* complete without the status check
CompleteAnyStatus(s) ==
    /\ Free(s)
    /\ recon.status # "none"
    /\ recon' = [recon EXCEPT !.status = "completed"]
    /\ Respond(s, "complete", 0, NoData, [status |-> 200, error |-> "none"])
    /\ UNCHANGED <<products, movements, ledger, payments, transactions,
                   transaction_items, agents, users, issued, now>>

\* add_count: update_or_create keyed by (reconciliation, product)
AddCount(s, product_id, physical_count) ==
    /\ Free(s)
    /\ recon.status # "none"
    /\ LET data == [product_id |-> product_id, physical_count |-> physical_count]
           product == products[product_id]
       IN  IF recon.status # "in_progress"
           THEN /\ Respond(s, "add_count", 0, data, Error(400, "not_in_progress"))
                /\ UNCHANGED recon
           ELSE IF ~(product.exists /\ product.is_active)
           THEN /\ Respond(s, "add_count", 0, data, Error(404, "product_not_found"))
                /\ UNCHANGED recon
           ELSE /\ recon' = [recon EXCEPT !.items[product_id] =
                       update_or_create(@, product.quantity_in_stock, physical_count)]
                /\ Respond(s, "add_count", 0, data,
                       [status |-> 200, error |-> "none",
                        created |-> ~recon.items[product_id].exists])
    /\ UNCHANGED <<products, movements, ledger, payments, transactions,
                   transaction_items, agents, users, issued, now>>

\* add_count when other requests run beside it, first step: get_object,
\* the status check and Product.objects.get
AddCountCheck(s, product_id, physical_count) ==
    /\ Free(s)
    /\ recon.status # "none"
    /\ LET data == [product_id |-> product_id, physical_count |-> physical_count]
           product == products[product_id]
       IN  IF recon.status # "in_progress"
           THEN Respond(s, "add_count", 0, data, Error(400, "not_in_progress"))
           ELSE IF ~(product.exists /\ product.is_active)
           THEN Respond(s, "add_count", 0, data, Error(404, "product_not_found"))
           ELSE reqs' = [reqs EXCEPT ![s] = Request("add_count", "checked", 0, data,
                             [product |-> product], NoData)]
    /\ UNCHANGED <<dbVars, agents, users, issued, now>>

\* add_count, second step: update_or_create with the product object loaded
\* in the first step, and the response
AddCountSave(s) ==
    /\ reqs[s].op = "add_count" /\ reqs[s].pc = "checked"
    /\ LET r == reqs[s]
       IN  /\ recon' = [recon EXCEPT !.items[r.data.product_id] =
                  update_or_create(@, r.obj.product.quantity_in_stock,
                                   r.data.physical_count)]
           /\ Respond(s, "add_count", 0, r.data,
                  [status |-> 200, error |-> "none",
                   created |-> ~recon.items[r.data.product_id].exists])
    /\ UNCHANGED <<products, movements, ledger, payments, transactions,
                   transaction_items, agents, users, issued, now>>

\* complete
Complete(s) ==
    /\ Free(s)
    /\ recon.status # "none"
    /\ IF recon.status # "in_progress"
       THEN /\ Respond(s, "complete", 0, NoData, Error(400, "not_in_progress"))
            /\ UNCHANGED recon
       ELSE /\ recon' = [recon EXCEPT !.status = "completed"]
            /\ Respond(s, "complete", 0, NoData, [status |-> 200, error |-> "none"])
    /\ UNCHANGED <<products, movements, ledger, payments, transactions,
                   transaction_items, agents, users, issued, now>>

\* approve
Approve(s) ==
    /\ Free(s)
    /\ recon.status # "none"
    /\ IF recon.status # "completed"
       THEN /\ Respond(s, "approve", 0, NoData, Error(400, "not_completed"))
            /\ UNCHANGED recon
       ELSE /\ recon' = [recon EXCEPT !.status = "approved"]
            /\ Respond(s, "approve", 0, NoData, [status |-> 200, error |-> "none"])
    /\ UNCHANGED <<products, movements, ledger, payments, transactions,
                   transaction_items, agents, users, issued, now>>

\* the generic update and partial_update of the ModelViewSet with
\* ReconciliationDetailSerializer, in which status is a writable field
ReconUpdate(s, status) ==
    /\ Free(s)
    /\ recon.status # "none"
    /\ recon' = [recon EXCEPT !.status = status]
    /\ Respond(s, "update", 0, [status |-> status], [status |-> 200, error |-> "none"])
    /\ UNCHANGED <<products, movements, ledger, payments, transactions,
                   transaction_items, agents, users, issued, now>>

\* the generic destroy of the ModelViewSet; the items go with the
\* reconciliation (on_delete=CASCADE)
ReconDestroy(s) ==
    /\ Free(s)
    /\ recon.status # "none"
    /\ recon' = NoRecon
    /\ Respond(s, "destroy", 0, NoData, [status |-> 204, error |-> "none"])
    /\ UNCHANGED <<products, movements, ledger, payments, transactions,
                   transaction_items, agents, users, issued, now>>

\* mutant: the filter forgets correction_created=False
discrepancies_flag_ignored(R) ==
    {p \in ProductIds : R.items[p].exists /\ R.items[p].has_discrepancy}

\* reconciliation.items.filter(has_discrepancy=True, correction_created=False)
discrepancies(R) ==
    {p \in ProductIds : /\ R.items[p].exists
                        /\ R.items[p].has_discrepancy
                        /\ ~R.items[p].correction_created}

\* the loop `for item in discrepancies`: per item the ADJUSTMENT movement,
\* product.save() on the Product loaded through item.product, item.save()
RECURSIVE CorrectionWrites(_, _, _)
CorrectionWrites(R, P, items) ==
    IF items = {} THEN <<>>
    ELSE LET p == CHOOSE q \in items : \A o \in items : q <= o
             item == R.items[p]
         IN  << MovementWrite(p, "adjustment", item.variance, "RECON"),
                ProductWrite(p, [quantity_in_stock |->
                                     P[p].quantity_in_stock + item.variance]),
                ItemWrite(p) >>
             \o CorrectionWrites(R, P, items \ {p})

\* create_corrections: the status check, then inside the atomic block the
\* query and the loop
CreateCorrectionsApply(s) ==
    /\ Free(s)
    /\ recon.status # "none"
    /\ IF recon.status # "approved"
       THEN Respond(s, "create_corrections", 0, NoData, Error(400, "not_approved"))
       ELSE /\ MovementsRoom(Cardinality(discrepancies(recon)))
            /\ reqs' = [reqs EXCEPT ![s] = Request("create_corrections", "tx", 0, NoData,
                   [items |-> discrepancies(recon),
                    writes |-> CorrectionWrites(recon, products, discrepancies(recon))],
                   NoData)]
    /\ UNCHANGED <<dbVars, agents, users, issued, now>>

\* create_corrections: leaving the atomic block, and the response
CreateCorrectionsCommit(s, failAt) ==
    /\ reqs[s].op = "create_corrections" /\ reqs[s].pc = "tx"
    /\ LET r == reqs[s]
           d == Atomic(DB, r.obj.writes, failAt, now)
       IN  /\ Commit(d)
           /\ IF failAt = 0
              THEN Respond(s, "create_corrections", 0, NoData,
                       [status |-> 200, error |-> "none",
                        corrections_created |-> Cardinality(r.obj.items)])
              ELSE Respond(s, "create_corrections", 0, NoData, Error(500, "exception"))
    /\ UNCHANGED <<agents, users, issued, now>>

----------------------------------------------------------------------------
(* Initial states: an installation with its agents registered and, where   *)
(* a specification says so, products created through ProductCreate         *)

Stocked(n) == [exists |-> TRUE, is_active |-> TRUE,
               quantity_in_stock |-> n, quantity_in_field |-> 0]

AgentRow(limit) == [is_active |-> TRUE, credit_limit |-> limit]

InitWith(P, A) ==
    /\ products = P
    /\ agents = A
    /\ users = Staff
    /\ issued = 0
    /\ movements = <<>>
    /\ ledger = <<>>
    /\ payments = <<>>
    /\ transactions = <<>>
    /\ transaction_items = <<>>
    /\ recon = NoRecon
    /\ now = 0
    /\ reqs = [s \in Slots |-> Idle]

----------------------------------------------------------------------------
(* SpecPay: transfers to agents and payments, one request at a time *)

PayPrices == [a \in AgentIds |-> IF a = 1 THEN {100, 200, 300} ELSE {100}]
PayAmounts == [a \in AgentIds |-> IF a = 1 THEN {250, 700} ELSE {50}]
PayTargets == [a \in AgentIds |-> IF a = 1 THEN {{}, {2}} ELSE {{}}]

InitPay ==
    InitWith([p \in ProductIds |-> IF p = 1 THEN Stocked(MaxLedger) ELSE NoProduct],
             [a \in AgentIds |-> AgentRow(0)])

NextPay ==
    \/ \E pk \in AgentIds : \E price \in PayPrices[pk] :
           TransferStockValidate(1, pk, pk, 1, 1, price)
    \/ TransferStockWrite(1, 0)
    \/ \E pk \in AgentIds : \E amount \in PayAmounts[pk], targets \in PayTargets[pk] :
           RecordPaymentApply(1, pk, amount, targets)
    \/ RecordPaymentCommit(1, 0)

SpecPay == InitPay /\ [][NextPay]_vars

----------------------------------------------------------------------------
(* SpecCredit: transfers to an agent with a credit limit and to one        *)
(* without, one request at a time                                          *)

CreditPrices == [a \in AgentIds |-> IF a = 1 THEN {480000, 20000, 20001} ELSE {20001}]

InitCredit ==
    InitWith([p \in ProductIds |-> IF p = 1 THEN Stocked(MaxLedger) ELSE NoProduct],
             [a \in AgentIds |-> IF a = 1 THEN AgentRow(500000) ELSE AgentRow(0)])

NextCredit ==
    \/ \E pk \in AgentIds : \E price \in CreditPrices[pk] :
           TransferStockValidate(1, pk, pk, 1, 1, price)
    \/ TransferStockWrite(1, 0)

SpecCredit == InitCredit /\ [][NextCredit]_vars

----------------------------------------------------------------------------
(* Spec: the stock of the products and the movement log, one request at a  *)
(* time                                                                    *)

StockLevels == {2}
Deltas == {-1, 1}
OneLine(p) == << [product_id |-> p, quantity |-> 1, unit_price |-> 10] >>

Init ==
    InitWith([p \in ProductIds |-> NoProduct], [a \in AgentIds |-> AgentRow(0)])

Next ==
    \/ \E p \in ProductIds, n \in StockLevels : ProductCreate(1, p, n)
    \/ ProductUpdate(1, 2, 0)
    \/ \E delta \in Deltas : AdjustStockBegin(1, 2, delta)
    \/ AdjustStockMovement(1)
    \/ AdjustStockSave(1)
    \/ TransferStockValidate(1, 1, 1, 1, 1, 100)
    \/ TransferStockWrite(1, 0)
    \/ CreateSaleValidate(1, OneLine(1), 10)
    \/ CreateSaleWrite(1, 0)
    \/ ReconCreate(1)
    \/ \E p \in ProductIds : AddCount(1, p, 1)
    \/ Complete(1)
    \/ Approve(1)
    \/ CreateCorrectionsApply(1)
    \/ CreateCorrectionsCommit(1, 0)

Spec == Init /\ [][Next]_vars

----------------------------------------------------------------------------
(* SpecRecon: a reconciliation from its creation to its corrections, with  *)
(* stock adjustments in between, one request at a time                     *)

Counts == {1, 2, 3}

InitRecon ==
    InitWith([p \in ProductIds |-> Stocked(2)], [a \in AgentIds |-> AgentRow(0)])

NextRecon ==
    \/ ReconCreate(1)
    \/ \E p \in ProductIds, n \in Counts : AddCount(1, p, n)
    \/ Complete(1)
    \/ Approve(1)
    \/ CreateCorrectionsApply(1)
    \/ CreateCorrectionsCommit(1, 0)
    \/ \E delta \in Deltas : AdjustStockBegin(1, 1, delta)
    \/ AdjustStockMovement(1)
    \/ AdjustStockSave(1)

SpecRecon == InitRecon /\ [][NextRecon]_vars

----------------------------------------------------------------------------
(* SpecReconApi: every operation ReconciliationViewSet exposes, one        *)
(* request at a time, while the stock of product 1 is adjusted.            *)

Statuses == {"in_progress", "completed", "approved", "rejected"}

ApiCounts == {2, 3}

InitReconApi ==
    InitWith([p \in ProductIds |-> IF p = 1 THEN Stocked(2) ELSE NoProduct],
             [a \in AgentIds |-> AgentRow(0)])

NextReconApi ==
    \/ ReconCreate(1)
    \/ \E p \in ProductIds, n \in ApiCounts : AddCount(1, p, n)
    \/ Complete(1)
    \/ Approve(1)
    \/ CreateCorrectionsApply(1)
    \/ CreateCorrectionsCommit(1, 0)
    \/ \E status \in Statuses : ReconUpdate(1, status)
    \/ ReconDestroy(1)
    \/ AdjustStockBegin(1, 1, 1)
    \/ AdjustStockMovement(1)
    \/ AdjustStockSave(1)

SpecReconApi == InitReconApi /\ [][NextReconApi]_vars

----------------------------------------------------------------------------
(* SpecTarget: both agents take stock and pay 150 towards entries they     *)
(* name, their own or not, paid or not.                                    *)

TargetSets == {{1, 2}, {2, 3}, {3}}

InitTarget ==
    InitWith([p \in ProductIds |-> IF p = 1 THEN Stocked(MaxLedger) ELSE NoProduct],
             [a \in AgentIds |-> AgentRow(0)])

NextTarget ==
    \/ \E a \in AgentIds : TransferStockValidate(1, a, a, 1, 1, 100)
    \/ TransferStockWrite(1, 0)
    \/ \E pk \in AgentIds, targets \in TargetSets : RecordPaymentApply(1, pk, 150, targets)
    \/ RecordPaymentCommit(1, 0)

SpecTarget == InitTarget /\ [][NextTarget]_vars

----------------------------------------------------------------------------
(* SpecAgentId: transfers whose URL names one agent and whose body names   *)
(* another; agent 2 has been deactivated and product 2 does not exist.     *)

AgentIdPrices == {100, 200}

InitAgentId ==
    InitWith([p \in ProductIds |-> IF p = 1 THEN Stocked(MaxLedger) ELSE NoProduct],
             [a \in AgentIds |->
                 IF a = 1 THEN AgentRow(0) ELSE [AgentRow(0) EXCEPT !.is_active = FALSE]])

NextAgentId ==
    \/ \E pk \in AgentIds, agent_id \in AgentIds, p \in ProductIds,
          price \in AgentIdPrices :
           TransferStockValidate(1, pk, agent_id, p, 1, price)
    \/ TransferStockWrite(1, 0)

SpecAgentId == InitAgentId /\ [][NextAgentId]_vars

----------------------------------------------------------------------------
(* SpecZero: agent 1 is handed stock, some of it at the price 0, and pays  *)

ZeroPrices == {0, 100}
ZeroAmounts == {50, 100}

InitZero ==
    InitWith([p \in ProductIds |-> IF p = 1 THEN Stocked(MaxLedger) ELSE NoProduct],
             [a \in AgentIds |-> AgentRow(0)])

NextZero ==
    \/ \E price \in ZeroPrices : TransferStockValidate(1, 1, 1, 1, 1, price)
    \/ TransferStockWrite(1, 0)
    \/ \E amount \in ZeroAmounts : RecordPaymentApply(1, 1, amount, {})
    \/ RecordPaymentCommit(1, 0)

SpecZero == InitZero /\ [][NextZero]_vars

----------------------------------------------------------------------------
(* SpecSale: sales of one or two line items, the same product twice        *)
(* included, with an exception possible at any write of the block          *)

Line(p, q) == [product_id |-> p, quantity |-> q, unit_price |-> 10]

Baskets == { <<Line(1, 1)>>, <<Line(1, 1), Line(1, 2)>>, <<Line(1, 1), Line(2, 1)>>,
             <<Line(2, 2), Line(1, 3)>>, <<Line(1, 1), Line(2, 4)>> }

SaleFailPoints == {0, 1, 3, 4}

InitSale ==
    InitWith([p \in ProductIds |-> Stocked(3)], [a \in AgentIds |-> AgentRow(0)])

NextSale ==
    \/ \E items \in Baskets, amount_paid \in {30, 50} :
           CreateSaleValidate(1, items, amount_paid)
    \/ \E failAt \in SaleFailPoints : CreateSaleWrite(1, failAt)

SpecSale == InitSale /\ [][NextSale]_vars

----------------------------------------------------------------------------
(* SpecLimit: agent 1, whose credit limit is 300, takes stock worth 200 a  *)
(* time and pays in instalments of 150; agent 2 has no limit               *)

InitLimit ==
    InitWith([p \in ProductIds |-> IF p = 1 THEN Stocked(MaxLedger) ELSE NoProduct],
             [a \in AgentIds |-> IF a = 1 THEN AgentRow(300) ELSE AgentRow(0)])

NextLimit ==
    \/ \E pk \in AgentIds : TransferStockValidate(1, pk, pk, 1, 1, 200)
    \/ TransferStockWrite(1, 0)
    \/ \E pk \in AgentIds : RecordPaymentApply(1, pk, 150, {})
    \/ RecordPaymentCommit(1, 0)

SpecLimit == InitLimit /\ [][NextLimit]_vars

----------------------------------------------------------------------------
(* SpecTxn: the sales at the end of a day on which SoldBefore sales have   *)
(* been made, and the first sales of the next day                          *)

TxnAmounts == {10, 20}
TxnInstants == {1, 2}

InitTxn ==
    /\ products = [p \in ProductIds |-> IF p = 1 THEN Stocked(MaxMovements + 1)
                                                 ELSE NoProduct]
    /\ agents = [a \in AgentIds |-> AgentRow(0)]
    /\ users = Staff
    /\ issued = 0
    /\ transactions = [i \in 1 .. SoldBefore |->
           [transaction_id |-> [day |-> 0, seq |-> Format04d(i)],
            transaction_type |-> "sale", subtotal |-> 10, total_amount |-> 10,
            amount_paid |-> 10, change_given |-> 0]]
    /\ transaction_items = [i \in 1 .. SoldBefore |->
           [transaction |-> i, product |-> 1, quantity |-> 1, unit_price |-> 10,
            line_total |-> 10]]
    /\ movements = [i \in 1 .. SoldBefore |->
           [product |-> 1, movement_type |-> "sale", quantity_delta |-> -1,
            reference_id |-> "TXN"]]
    /\ ledger = <<>>
    /\ payments = <<>>
    /\ recon = NoRecon
    /\ now = 0
    /\ reqs = [s \in Slots |-> Idle]

NextTxn ==
    \/ \E amount_paid \in TxnAmounts : CreateSaleValidate(1, OneLine(1), amount_paid)
    \/ CreateSaleWrite(1, 0)
    \/ \E t \in TxnInstants : Tick(t)

SpecTxn == InitTxn /\ [][NextTxn]_vars

----------------------------------------------------------------------------
(* SpecAuth: the owner and the cashier log in and out and use the tokens   *)
(* made so far, or none, while the clock runs and the owner deactivates    *)
(* and reactivates the cashier                                             *)

AuthInstants == {1, 2, 3}

InitAuth ==
    InitWith([p \in ProductIds |-> NoProduct], [a \in AgentIds |-> AgentRow(0)])

NextAuth ==
    \/ \E u \in UserIds, password_ok \in BOOLEAN : Login(1, u, password_ok)
    \/ \E token \in 0 .. issued : Me(1, token)
    \/ \E token \in 0 .. issued : Logout(1, token)
    \/ \E token \in 0 .. issued, is_active \in BOOLEAN :
           UserUpdate(1, token, 2, is_active)
    \/ \E t \in AuthInstants : Tick(t)

SpecAuth == InitAuth /\ [][NextAuth]_vars

----------------------------------------------------------------------------
(* SpecCount: two requests at a time on one reconciliation and its product *)
(* in every interleaving of their steps: counts, complete and stock        *)
(* adjustments                                                             *)

InitCount ==
    InitWith([p \in ProductIds |-> IF p = 1 THEN Stocked(2) ELSE NoProduct],
             [a \in AgentIds |-> AgentRow(0)])

NextCount ==
    \E s \in Slots :
        \/ ReconCreate(s)
        \/ \E n \in ApiCounts : AddCountCheck(s, 1, n)
        \/ AddCountSave(s)
        \/ Complete(s)
        \/ AdjustStockBegin(s, 1, 1)
        \/ AdjustStockMovement(s)
        \/ AdjustStockSave(s)

SpecCount == InitCount /\ [][NextCount]_vars

----------------------------------------------------------------------------
(* SpecCorr: a reconciliation of both products from its creation to its    *)
(* corrections, one request at a time, with stock adjustments in between   *)
(* and an exception possible at any write of the corrections               *)

CorrFailPoints == {0, 1, 3, 5}

InitCorr ==
    InitWith([p \in ProductIds |-> Stocked(2)], [a \in AgentIds |-> AgentRow(0)])

NextCorr ==
    \/ ReconCreate(1)
    \/ \E p \in ProductIds, n \in Counts : AddCount(1, p, n)
    \/ Complete(1)
    \/ Approve(1)
    \/ CreateCorrectionsApply(1)
    \/ \E failAt \in CorrFailPoints : CreateCorrectionsCommit(1, failAt)
    \/ AdjustStockBegin(1, 1, 1)
    \/ AdjustStockMovement(1)
    \/ AdjustStockSave(1)

SpecCorr == InitCorr /\ [][NextCorr]_vars

----------------------------------------------------------------------------
(* SpecPayConc: two record_payment requests for agent 1, who holds two     *)
(* unpaid entries, one per slot, in every interleaving of their steps      *)

ConcAmounts == {100, 250, 400}

InitPayConc ==
    /\ products = [p \in ProductIds |->
           IF p = 1 THEN [Stocked(2) EXCEPT !.quantity_in_field = 2] ELSE NoProduct]
    /\ agents = [a \in AgentIds |-> AgentRow(0)]
    /\ users = Staff
    /\ issued = 0
    /\ movements = [i \in 1 .. 2 |->
           [product |-> 1, movement_type |-> "transfer_to_agent",
            quantity_delta |-> -1, reference_id |-> "AGENT_TRANSFER"]]
    /\ ledger = [i \in 1 .. 2 |->
           [agent |-> 1, product |-> 1, quantity |-> 1,
            unit_price |-> IF i = 1 THEN 300 ELSE 200,
            debt_amount |-> IF i = 1 THEN 300 ELSE 200,
            transfer_date |-> i - 1, is_paid |-> FALSE, paid_amount |-> 0,
            payment_date |-> NULL, inventory_movement_id |-> i]]
    /\ payments = <<>>
    /\ transactions = <<>>
    /\ transaction_items = <<>>
    /\ recon = NoRecon
    /\ now = 2
    /\ reqs = [s \in Slots |-> Idle]

NextPayConc ==
    \E s \in Slots :
        \/ /\ reqs[s].pc = "idle"
           /\ \E amount \in ConcAmounts, targets \in {{}, {2}} :
                  RecordPaymentApply(s, 1, amount, targets)
        \/ RecordPaymentCommit(s, 0)

SpecPayConc == InitPayConc /\ [][NextPayConc]_vars

----------------------------------------------------------------------------
(* SpecStockConc: transfers and sales on two slots in every interleaving   *)
(* of their steps, from a shop that holds 2 units of product 1 and 1 unit  *)
(* of product 2                                                            *)

ConcQuantities == {1, 2}

ConcBaskets == { <<Line(1, 1)>>, <<Line(1, 2)>>, <<Line(2, 1)>>,
                 <<Line(1, 1), Line(1, 1)>> }

InitStockConc ==
    InitWith([p \in ProductIds |-> IF p = 1 THEN Stocked(2) ELSE Stocked(1)],
             [a \in AgentIds |-> AgentRow(0)])

NextStockConc ==
    \E s \in Slots :
        \/ \E p \in ProductIds, q \in ConcQuantities :
               TransferStockValidate(s, 1, 1, p, q, 100)
        \/ TransferStockWrite(s, 0)
        \/ \E items \in ConcBaskets : CreateSaleValidate(s, items, 20)
        \/ CreateSaleWrite(s, 0)

SpecStockConc == InitStockConc /\ [][NextStockConc]_vars

----------------------------------------------------------------------------
(* SpecAfterCount: a reconciliation is counted, closed and corrected on a  *)
(* shop without movements; once counting is closed the stock of product 1  *)
(* is adjusted or edited before the corrections are made                   *)

Closed == recon.status \in {"completed", "approved"}

EditedLevels == {0, 3}

InitAfterCount ==
    InitWith([p \in ProductIds |-> Stocked(2)], [a \in AgentIds |-> AgentRow(0)])

NextAfterCount ==
    \/ ReconCreate(1)
    \/ \E p \in ProductIds, n \in Counts : AddCount(1, p, n)
    \/ Complete(1)
    \/ Approve(1)
    \/ CreateCorrectionsApply(1)
    \/ CreateCorrectionsCommit(1, 0)
    \/ Closed /\ \E delta \in Deltas : AdjustStockBegin(1, 1, delta)
    \/ AdjustStockMovement(1)
    \/ AdjustStockSave(1)
    \/ Closed /\ \E n \in EditedLevels : ProductUpdate(1, 1, n)

SpecAfterCount == InitAfterCount /\ [][NextAfterCount]_vars

----------------------------------------------------------------------------
(* SpecConc: two requests, one per slot, in every interleaving of their    *)
(* steps.  They start from a shop in which product 1 was created with a    *)
(* stock of 5, one unit was transferred to agent 1 (credit limit 500000)   *)
(* at 480000, and a reconciliation that counted 5 units of product 1 when  *)
(* the system had 4 has been approved.                                     *)

InitConc ==
    /\ products = [p \in ProductIds |->
           IF p = 1 THEN [Stocked(4) EXCEPT !.quantity_in_field = 1] ELSE NoProduct]
    /\ agents = [a \in AgentIds |-> IF a = 1 THEN AgentRow(500000) ELSE AgentRow(0)]
    /\ users = Staff
    /\ issued = 0
    /\ movements = <<[product |-> 1, movement_type |-> "transfer_to_agent",
                      quantity_delta |-> -1, reference_id |-> "AGENT_TRANSFER"]>>
    /\ ledger = <<[agent |-> 1, product |-> 1, quantity |-> 1, unit_price |-> 480000,
                   debt_amount |-> 480000, transfer_date |-> 0, is_paid |-> FALSE,
                   paid_amount |-> 0, payment_date |-> NULL,
                   inventory_movement_id |-> 1]>>
    /\ payments = <<>>
    /\ transactions = <<>>
    /\ transaction_items = <<>>
    /\ recon = [status |-> "approved",
                items |-> [p \in ProductIds |->
                    IF p = 1 THEN [exists |-> TRUE, system_count |-> 4,
                                   physical_count |-> 5, variance |-> 1,
                                   has_discrepancy |-> TRUE,
                                   correction_approved |-> FALSE,
                                   correction_created |-> FALSE]
                    ELSE NoItem]]
    /\ now = 1
    /\ reqs = [s \in Slots |-> Idle]

NextConc ==
    \E s \in Slots :
        \/ reqs[s].pc = "idle" /\ TransferStockValidate(s, 1, 1, 1, 1, 20000)
        \/ TransferStockWrite(s, 0)
        \/ reqs[s].pc = "idle" /\ \E delta \in Deltas : AdjustStockBegin(s, 1, delta)
        \/ AdjustStockMovement(s)
        \/ AdjustStockSave(s)
        \/ reqs[s].pc = "idle" /\ CreateSaleValidate(s, OneLine(1), 10)
        \/ CreateSaleWrite(s, 0)
        \/ reqs[s].pc = "idle" /\ CreateCorrectionsApply(s)
        \/ CreateCorrectionsCommit(s, 0)

SpecConc == InitConc /\ [][NextConc]_vars

----------------------------------------------------------------------------
(* SpecFail: one request at a time; an exception may be raised at any      *)
(* write of transfer_stock's atomic block and between the two writes of    *)
(* adjust_stock.                                                           *)

\* failAt = 0: no exception; failAt = k: the k-th write of the block raises
FailPoints == 0 .. 3

FailQuantities == {1, 2}

InitFail ==
    InitWith([p \in ProductIds |-> Stocked(3)], [a \in AgentIds |-> AgentRow(0)])

NextFail ==
    \/ \E a \in AgentIds, p \in ProductIds, q \in FailQuantities :
           TransferStockValidate(1, a, a, p, q, 100)
    \/ \E failAt \in FailPoints : TransferStockWrite(1, failAt)
    \/ \E delta \in Deltas : AdjustStockBegin(1, 1, delta)
    \/ AdjustStockMovement(1)
    \/ AdjustStockSave(1)
    \/ AdjustStockFail(1)

SpecFail == InitFail /\ [][NextFail]_vars

----------------------------------------------------------------------------
(* SpecAging: agent 1 takes stock and settles one entry while the clock    *)
(* passes the instants at which an entry made at time 0 is exactly 7, 30,  *)
(* 60 and 90 days old, and those half a day before and after.              *)

\* half a day before, at, and half a day after 7, 30, 60 and 90 days
Instants == {days(n) + k : n \in {7, 30, 60, 90}, k \in {-1, 0, 1}}

InitAging ==
    InitWith([p \in ProductIds |-> IF p = 1 THEN Stocked(MaxLedger) ELSE NoProduct],
             [a \in AgentIds |-> AgentRow(0)])

NextAging ==
    \/ TransferStockValidate(1, 1, 1, 1, 1, 100)
    \/ TransferStockWrite(1, 0)
    \/ payments = <<>> /\ RecordPaymentApply(1, 1, 100, {})
    \/ RecordPaymentCommit(1, 0)
    \/ DebtSummary(1, 1)
    \/ \E t \in Instants : Tick(t)

SpecAging == InitAging /\ [][NextAging]_vars

----------------------------------------------------------------------------
(* Claims about the agent ledger and the settlement of payments *)

\* what an agent owes: the part of each debt that is not paid yet
projectAgentDebt(L, a) ==
    SumSet({i \in Ids(L) : L[i].agent = a /\ L[i].paid_amount < L[i].debt_amount},
           [i \in Ids(L) |-> L[i].debt_amount - L[i].paid_amount])

\* the sum of paid_amount over the entries of agent a
PaidTotal(L, a) ==
    SumSet({i \in Ids(L) : L[i].agent = a}, [i \in Ids(L) |-> L[i].paid_amount])

\* the step in which request s leaves the atomic block of record_payment
PaymentCommitted(s) ==
    /\ reqs[s].op = "record_payment" /\ reqs[s].pc = "tx"
    /\ reqs'[s].pc = "done" /\ reqs'[s].resp.status = 201

\* C1: for every agent, Agent.total_debt is the sum of (debt_amount -
\* paid_amount) over the agent's entries with paid_amount < debt_amount
C1_TotalDebtIsOutstanding ==
    \A a \in AgentIds : total_debt(ledger, a) = projectAgentDebt(ledger, a)

\* C5: a payment with no target list goes to the oldest unpaid entries
\* first: an entry of the agent receives money only if every older unpaid
\* entry of the agent ends fully paid; debts 100, 200, 300 and a payment of
\* 250 end as paid 100 (settled), 150 and 0 with nothing remaining
C5_FIFO ==
    [][\A s \in Slots :
        (PaymentCommitted(s) /\ reqs[s].data.ledger_entries = {}) =>
            LET a == reqs[s].pk
                unpaid == order_by_transfer_date(ledger,
                              {i \in Ids(ledger) : ledger[i].agent = a /\ ~ledger[i].is_paid})
            IN  /\ \A i \in Ids(ledger) :
                       ledger'[i].paid_amount # ledger[i].paid_amount =>
                           /\ ledger[i].agent = a
                           /\ ledger'[i].paid_amount > ledger[i].paid_amount
                           /\ \A j \in Ids(ledger) :
                                  (/\ ledger[j].agent = a /\ ~ledger[j].is_paid
                                   /\ ledger[j].transfer_date < ledger[i].transfer_date)
                                  => /\ ledger'[j].is_paid
                                     /\ ledger'[j].paid_amount = ledger[j].debt_amount
                /\ (/\ reqs[s].data.amount = 250
                    /\ Len(unpaid) = 3
                    /\ \A k \in 1..3 : /\ ledger[unpaid[k]].debt_amount = 100 * k
                                       /\ ledger[unpaid[k]].paid_amount = 0)
                   => /\ ledger'[unpaid[1]].paid_amount = 100
                      /\ ledger'[unpaid[1]].is_paid
                      /\ ledger'[unpaid[2]].paid_amount = 150
                      /\ ~ledger'[unpaid[2]].is_paid
                      /\ ledger'[unpaid[3]] = ledger[unpaid[3]]
                      /\ reqs'[s].resp.amount_remaining = 0
    ]_vars

\* C5 witness: debts 100, 200, 300 of agent 1 after a payment of 250
C5_Witness ==
    /\ Done(1, "record_payment") /\ reqs[1].resp.status = 201
    /\ reqs[1].pk = 1 /\ reqs[1].data.amount = 250 /\ reqs[1].data.ledger_entries = {}
    /\ Len(ledger) = 3 /\ \A i \in 1..3 : ledger[i].agent = 1 /\ ledger[i].debt_amount = 100 * i
    /\ ledger[1].paid_amount = 100 /\ ledger[2].paid_amount = 150 /\ ledger[3].paid_amount = 0
    /\ reqs[1].resp.amount_remaining = 0

\* C6: amount_applied + amount_remaining = amount, and amount_applied is
\* the increase of paid_amount over the agent's entries made by the call;
\* a payment above what the selected entries owe settles each of them and
\* reports the excess as amount_remaining
C6_Conservation ==
    [][\A s \in Slots :
        PaymentCommitted(s) =>
            LET a == reqs[s].pk
                amount == reqs[s].data.amount
                resp == reqs'[s].resp
                selected == SelectEntries(ledger, a, reqs[s].data.ledger_entries)
                owed == SumSet(selected, [i \in Ids(ledger) |->
                            ledger[i].debt_amount - ledger[i].paid_amount])
            IN  /\ resp.amount_applied + resp.amount_remaining = amount
                /\ resp.amount_applied = PaidTotal(ledger', a) - PaidTotal(ledger, a)
                /\ resp.amount_applied >= 0 /\ resp.amount_remaining >= 0
                /\ \A b \in AgentIds \ {a} : PaidTotal(ledger', b) = PaidTotal(ledger, b)
                /\ amount <= owed => resp.amount_remaining = 0
                /\ amount >= owed =>
                       /\ resp.amount_remaining = amount - owed
                       /\ \A i \in selected : ledger'[i].is_paid
    ]_vars

\* C6 witness: a payment larger than the debt, part applied and part left
C6_Witness ==
    /\ Done(1, "record_payment") /\ reqs[1].resp.status = 201
    /\ reqs[1].resp.amount_applied > 0 /\ reqs[1].resp.amount_remaining > 0
    /\ reqs[1].data.ledger_entries = {}
    /\ projectAgentDebt(ledger, reqs[1].pk) = 0

\* C4: for an agent with credit_limit > 0, a transfer creating debt d is
\* accepted iff (outstanding debt + d) <= credit_limit: an accepted
\* transfer leaves the debt within the limit, and one rejected for the
\* credit limit would have exceeded it
C4_CreditLimitIff ==
    \A s \in Slots :
        (/\ Done(s, "transfer_stock")
         /\ reqs[s].pk = reqs[s].data.agent_id
         /\ agents[reqs[s].pk].credit_limit > 0) =>
            LET a == reqs[s].pk
                d == reqs[s].data.quantity * reqs[s].data.unit_price
                limit == agents[a].credit_limit
            IN  /\ reqs[s].resp.status = 201 =>
                       projectAgentDebt(ledger, a) <= limit
                /\ reqs[s].resp.error = "credit_limit_exceeded" =>
                       projectAgentDebt(ledger, a) + d > limit

\* whether request r was accepted
Accepted(r) == r.pc = "done" /\ r.resp.status \in {200, 201}

\* the debt a transfer_stock request asks for
RequestedDebt(r) == r.data.quantity * r.data.unit_price

\* C3: two transfer_stock requests for the same agent, each within the
\* credit limit on its own and above it together: exactly one is accepted,
\* the other is rejected for the credit limit, and the agent's outstanding
\* debt does not end above credit_limit
C3_OneOfTwoTransfers ==
    (/\ Done(1, "transfer_stock") /\ Done(2, "transfer_stock")
     /\ reqs[1].pk = reqs[2].pk
     /\ agents[reqs[1].pk].credit_limit > 0) =>
        LET a == reqs[1].pk
            limit == agents[a].credit_limit
            d1 == RequestedDebt(reqs[1])
            d2 == RequestedDebt(reqs[2])
            before == projectAgentDebt(ledger, a)
                          - (IF Accepted(reqs[1]) THEN d1 ELSE 0)
                          - (IF Accepted(reqs[2]) THEN d2 ELSE 0)
        IN  (before + d1 <= limit /\ before + d2 <= limit /\ before + d1 + d2 > limit)
            => /\ Accepted(reqs[1]) # Accepted(reqs[2])
               /\ \E s \in Slots : reqs[s].resp.error = "credit_limit_exceeded"
               /\ projectAgentDebt(ledger, a) <= limit

\* the age of ledger entry i
Age(i) == now - ledger[i].transfer_date

\* the unpaid entries of agent a
Unpaid(a) == {i \in Ids(ledger) : ledger[i].agent = a /\ ~ledger[i].is_paid}

\* entry i is counted in bucket b: taking it out of the unpaid entries
\* lowers the bucket's sum by its debt_amount
Counted(a, i, b) ==
    LET without == [ledger EXCEPT ![i].is_paid = TRUE]
    IN  get_debt_by_age(ledger, a, now)[b]
            = get_debt_by_age(without, a, now)[b] + ledger[i].debt_amount

CountedOnlyIn(a, i, b) ==
    \A c \in Buckets : Counted(a, i, c) <=> c = b

\* C8 as stated: an unpaid entry exactly 7, 30, 60 or 90 days old is
\* counted in the older bucket ('8-30', '31-60', '61-90', '90+')
C8_BoundaryInOlderBucket ==
    \A a \in AgentIds : \A i \in Unpaid(a) :
        /\ Age(i) = days(7) => CountedOnlyIn(a, i, "8-30")
        /\ Age(i) = days(30) => CountedOnlyIn(a, i, "31-60")
        /\ Age(i) = days(60) => CountedOnlyIn(a, i, "61-90")
        /\ Age(i) = days(90) => CountedOnlyIn(a, i, "90+")

\* C8 amended: an unpaid entry is counted in exactly one bucket, and one
\* that is exactly 7, 30, 60 or 90 days old in the younger one: the windows
\* are age <= 7, 7 < age <= 30, 30 < age <= 60, 60 < age <= 90 and age > 90
C8_BoundaryInYoungerBucket ==
    \A a \in AgentIds : \A i \in Unpaid(a) :
        /\ Age(i) <= days(7) => CountedOnlyIn(a, i, "0-7")
        /\ (days(7) < Age(i) /\ Age(i) <= days(30)) => CountedOnlyIn(a, i, "8-30")
        /\ (days(30) < Age(i) /\ Age(i) <= days(60)) => CountedOnlyIn(a, i, "31-60")
        /\ (days(60) < Age(i) /\ Age(i) <= days(90)) => CountedOnlyIn(a, i, "61-90")
        /\ days(90) < Age(i) => CountedOnlyIn(a, i, "90+")

\* debt_summary has just answered for an agent with an unpaid entry exactly
\* 30 days old and another past a boundary by half a day
C8_Witness ==
    /\ Done(1, "debt_summary")
    /\ reqs[1].resp.debt_by_age = get_debt_by_age(ledger, reqs[1].pk, now)
    /\ reqs[1].resp.debt_by_age["8-30"] > 0
    /\ \E i \in Unpaid(reqs[1].pk) : Age(i) = days(30)
    /\ \E i \in Unpaid(reqs[1].pk) : Age(i) = days(30) + 1

----------------------------------------------------------------------------
(* Claims about the stock counters, the movement log and reconciliation *)

\* the fold of the movement log of product p
projectStock(M, p) ==
    SumSet({i \in Ids(M) : M[i].product = p}, [i \in Ids(M) |-> M[i].quantity_delta])

\* C2: between requests, the stock counter of every product equals the sum
\* of quantity_delta over the movements of the product
C2_StockIsFoldOfMovements ==
    (\A s \in Slots : Free(s)) =>
        \A p \in ProductIds :
            products[p].exists =>
                products[p].quantity_in_stock = projectStock(movements, p)

\* C7: a create_corrections call that directly follows a successful one on
\* the same approved reconciliation selects no item, and so appends no
\* movement, changes no stock counter and reports corrections_created = 0
C7_SecondCallCreatesNothing ==
    [][/\ (/\ Done(1, "create_corrections") /\ reqs[1].resp.status = 200
           /\ reqs'[1].op = "create_corrections" /\ reqs'[1].pc = "tx")
          => /\ reqs'[1].obj.items = {}
             /\ reqs'[1].obj.writes = <<>>
       /\ (/\ reqs[1].op = "create_corrections" /\ reqs[1].pc = "tx"
           /\ reqs[1].obj.items = {}
           /\ reqs'[1].pc = "done")
          => /\ reqs'[1].resp.status = 200
             /\ reqs'[1].resp.corrections_created = 0
             /\ movements' = movements
             /\ products' = products
             /\ recon' = recon
    ]_vars

\* C7 witness: corrections exist in the log and a later call reported none
C7_Witness ==
    /\ Done(1, "create_corrections") /\ reqs[1].resp.status = 200
    /\ reqs[1].resp.corrections_created = 0
    /\ \E i \in Ids(movements) : movements[i].reference_id = "RECON"
    /\ \E p \in ProductIds : recon.items[p].correction_created

\* the change of the stock counter of product p that request r stands for
RECURSIVE SoldQuantity(_, _)
SoldQuantity(items, p) ==
    IF items = <<>> THEN 0
    ELSE (IF Head(items).product_id = p THEN Head(items).quantity ELSE 0)
             + SoldQuantity(Tail(items), p)

StockDelta(r, p) ==
    IF ~Accepted(r) THEN 0
    ELSE CASE r.op = "transfer_stock" ->
                  IF r.data.product_id = p THEN -r.data.quantity ELSE 0
           [] r.op = "adjust_stock" ->
                  IF r.pk = p THEN r.data.quantity_delta ELSE 0
           [] r.op = "create_sale" -> -SoldQuantity(r.data.items, p)
           [] r.op = "create_corrections" ->
                  IF r.resp.corrections_created > 0 /\ recon.items[p].has_discrepancy
                  THEN recon.items[p].variance ELSE 0
           [] OTHER -> 0

\* C10: two requests that change the stock counter of product 1 (of 4
\* units) and run concurrently leave it at 4 + d1 + d2
C10_NoLostUpdate ==
    (reqs[1].pc = "done" /\ reqs[2].pc = "done") =>
        products[1].quantity_in_stock
            = 4 + StockDelta(reqs[1], 1) + StockDelta(reqs[2], 1)

\* C9: transfer_stock is all-or-nothing.  When the handler ends, whether
\* or not one of its writes raised, either nothing in the database changed,
\* or the TRANSFER_TO_AGENT movement (delta = -quantity), the ledger entry
\* that refers to it and the new product counters (quantity_in_stock -
\* quantity, quantity_in_field + quantity) are all there
C9_TransferAllOrNothing ==
    [][\A s \in Slots :
        (/\ reqs[s].op = "transfer_stock" /\ reqs[s].pc = "validated"
         /\ reqs'[s].pc = "done") =>
            LET data == reqs[s].data
                p == data.product_id
            IN  \/ /\ reqs'[s].resp.status = 500
                   /\ UNCHANGED dbVars
                \/ /\ reqs'[s].resp.status = 201
                   /\ Len(movements') = Len(movements) + 1
                   /\ movements'[Len(movements')].product = p
                   /\ movements'[Len(movements')].movement_type = "transfer_to_agent"
                   /\ movements'[Len(movements')].quantity_delta = -data.quantity
                   /\ Len(ledger') = Len(ledger) + 1
                   /\ ledger'[Len(ledger')].agent = reqs[s].pk
                   /\ ledger'[Len(ledger')].product = p
                   /\ ledger'[Len(ledger')].quantity = data.quantity
                   /\ ledger'[Len(ledger')].inventory_movement_id = Len(movements')
                   /\ products'[p].quantity_in_stock
                          = products[p].quantity_in_stock - data.quantity
                   /\ products'[p].quantity_in_field
                          = products[p].quantity_in_field + data.quantity
    ]_vars

\* a transfer has failed after an earlier one was committed
C9_Witness ==
    /\ Done(1, "transfer_stock")
    /\ reqs[1].resp.status = 500
    /\ Len(ledger) >= 1
    /\ Len(movements) >= 1

----------------------------------------------------------------------------
(* Claims about the states of a reconciliation *)

\* slot s starts serving a request of operation op in this step
Starts(s, op) ==
    /\ Free(s)
    /\ reqs'[s] # reqs[s]
    /\ reqs'[s].op = op

\* the status an operation of the reconciliation requires
Required(op) ==
    CASE op = "add_count" -> "in_progress"
      [] op = "complete" -> "in_progress"
      [] op = "approve" -> "completed"
      [] op = "create_corrections" -> "approved"

\* C11: add_count, complete, approve or create_corrections on a
\* reconciliation that is not in the status the operation requires answers
\* with an error and leaves the status, the items, the movements and the
\* product counters as they were
C11_WrongStateRejected ==
    [][\A s \in Slots :
         \A op \in {"add_count", "complete", "approve", "create_corrections"} :
            (Starts(s, op) /\ recon.status # "none" /\ recon.status # Required(op)) =>
                /\ reqs'[s].pc = "done"
                /\ reqs'[s].resp.status = 400
                /\ UNCHANGED <<recon, movements, products>>
    ]_vars

\* complete has been rejected on an approved reconciliation that holds a
\* discrepancy
C11_Witness ==
    /\ Done(1, "complete")
    /\ reqs[1].resp.status = 400
    /\ recon.status = "approved"
    /\ \E p \in ProductIds : recon.items[p].exists /\ recon.items[p].has_discrepancy

\* the changes of status the reconciliation workflow allows
Workflow == { <<"in_progress", "completed">>, <<"completed", "approved">>,
              <<"in_progress", "rejected">>, <<"completed", "rejected">> }

\* C12: whatever operation of ReconciliationViewSet runs, the status of an
\* existing reconciliation stays as it is or moves along in_progress ->
\* completed -> approved, or to rejected from in_progress or completed
C12_StatusOnlyForward ==
    [][(recon.status # "none" /\ recon'.status # "none") =>
           \/ recon'.status = recon.status
           \/ <<recon.status, recon'.status>> \in Workflow
    ]_vars

\* the correcting movements logged for the item of product p
Corrections(p) ==
    {i \in Ids(movements) : /\ movements[i].product = p
                            /\ movements[i].movement_type = "adjustment"
                            /\ movements[i].reference_id = "RECON"}

\* C13: each reconciliation item has at most one correcting movement, and
\* when create_corrections requests are all that ran on the 4 units of
\* product 1, its counter is 4 or 4 plus the item's variance
C13_AtMostOneCorrection ==
    /\ \A p \in ProductIds : Cardinality(Corrections(p)) <= 1
    /\ (\A s \in Slots : reqs[s].op \in {"none", "create_corrections"}) =>
           products[1].quantity_in_stock \in {4, 4 + recon.items[1].variance}

C15_AddCountUpsert ==
    [][\A s \in Slots :
        (Starts(s, "add_count") /\ reqs'[s].resp.status = 200) =>
            LET p == reqs'[s].data.product_id
                n == reqs'[s].data.physical_count
            IN  /\ recon'.items[p].exists
                /\ recon'.items[p].physical_count = n
                /\ recon'.items[p].system_count = products[p].quantity_in_stock
                /\ \A q \in ProductIds \ {p} : recon'.items[q] = recon.items[q]
                /\ recon'.status = recon.status
                /\ (/\ recon.items[p].exists
                    /\ recon.items[p].physical_count = n
                    /\ recon.items[p].system_count = products[p].quantity_in_stock)
                       => recon' = recon
    ]_vars

\* a second count of product 1 replaced the first after the stock changed
C15_Witness ==
    /\ Done(1, "add_count")
    /\ reqs[1].resp.status = 200
    /\ ~reqs[1].resp.created
    /\ reqs[1].data.product_id = 1
    /\ recon.items[1].physical_count = reqs[1].data.physical_count
    /\ recon.items[1].system_count = 3
    /\ products[1].quantity_in_stock = 3

----------------------------------------------------------------------------
(* Claims about payments and transfers *)

\* C16: the payment rows are append-only, a successful record_payment adds
\* exactly one row, for its agent and with the full stated amount, and
\* nothing else adds a row
C16_PaymentsAppendOnly ==
    [][/\ Len(payments') >= Len(payments)
       /\ \A i \in Ids(payments) : payments'[i] = payments[i]
       /\ \A s \in Slots :
              PaymentCommitted(s) =>
                  /\ Len(payments') = Len(payments) + 1
                  /\ payments'[Len(payments')].agent = reqs[s].pk
                  /\ payments'[Len(payments')].amount = reqs[s].data.amount
       /\ (~\E s \in Slots : PaymentCommitted(s)) => payments' = payments
    ]_vars

\* a payment of which nothing could be allocated was recorded in full, after
\* an earlier payment
C16_Witness ==
    /\ Done(1, "record_payment")
    /\ reqs[1].resp.status = 201
    /\ reqs[1].resp.amount_applied = 0
    /\ reqs[1].resp.payment = 2
    /\ Len(payments) = 2
    /\ payments[2].amount = reqs[1].data.amount
    /\ payments[2].amount > 0

\* the entries a payment of agent pk with target list T may touch
Eligible(pk, T) ==
    {i \in Ids(ledger) : i \in T /\ ledger[i].agent = pk /\ ~ledger[i].is_paid}

\* C17: a record_payment of agent pk with a non-empty target list changes
\* only entries that are named, belong to pk and are unpaid, oldest first:
\* an entry is touched only when every older one it may touch is settled
C17_TargetsOnly ==
    [][\A s \in Slots :
        (PaymentCommitted(s) /\ reqs[s].data.ledger_entries # {}) =>
            LET pk == reqs[s].pk
                T == reqs[s].data.ledger_entries
            IN  /\ Len(ledger') = Len(ledger)
                /\ \A i \in Ids(ledger) :
                       ledger'[i] # ledger[i] => i \in Eligible(pk, T)
                /\ \A i, j \in Eligible(pk, T) :
                       (/\ ledger[j].transfer_date < ledger[i].transfer_date
                        /\ ledger'[i] # ledger[i]) => ledger'[j].is_paid
    ]_vars

\* a payment that named an entry of the other agent and an entry of its own
\* went to its own entry only
C17_Witness ==
    /\ Done(1, "record_payment")
    /\ reqs[1].resp.status = 201
    /\ reqs[1].resp.updated_entries_count = 1
    /\ \E i, j \in reqs[1].data.ledger_entries \cap Ids(ledger) :
           /\ ledger[i].agent # reqs[1].pk
           /\ ledger[i].paid_amount = 0
           /\ ledger[j].agent = reqs[1].pk
           /\ ledger[j].paid_amount > 0

\* C18: a transfer_stock request for more than the product's
\* quantity_in_stock is answered with an error at once and no movement, no
\* ledger entry and no counter is written
C18_InsufficientStockRejected ==
    [][\A s \in Slots :
        (/\ Starts(s, "transfer_stock")
         /\ reqs'[s].data.quantity
                > products[reqs'[s].data.product_id].quantity_in_stock) =>
            /\ reqs'[s].pc = "done"
            /\ reqs'[s].resp.status = 400
            /\ UNCHANGED dbVars
    ]_vars

\* a transfer was refused for lack of stock after earlier transfers had
\* taken stock
C18_Witness ==
    /\ Done(1, "transfer_stock")
    /\ reqs[1].resp.error = "insufficient_stock"
    /\ Len(ledger) >= 1
    /\ products[reqs[1].data.product_id].quantity_in_stock > 0

\* C19: transfer_stock is accepted only when the agent who receives the
\* ledger entry and the product are there and active, and no ledger entry
\* belongs to an agent who was inactive when it was made (no operation of
\* the model changes an agent)
C19_NoEntryForInactiveAgent ==
    /\ \A s \in Slots :
           (Done(s, "transfer_stock") /\ reqs[s].resp.status = 201) =>
               /\ agents[reqs[s].pk].is_active
               /\ products[reqs[s].data.product_id].exists
               /\ products[reqs[s].data.product_id].is_active
    /\ \A i \in Ids(ledger) : agents[ledger[i].agent].is_active

\* C20: for an agent with credit_limit 0, validation lets every transfer
\* through that names an active agent and an active product with enough
\* stock, whatever the debt it adds and the debt there is
C20_UnlimitedNeverRejected ==
    [][\A s \in Slots :
        (/\ Starts(s, "transfer_stock")
         /\ agents[reqs'[s].data.agent_id].is_active
         /\ agents[reqs'[s].data.agent_id].credit_limit = 0
         /\ products[reqs'[s].data.product_id].exists
         /\ products[reqs'[s].data.product_id].is_active
         /\ products[reqs'[s].data.product_id].quantity_in_stock
                >= reqs'[s].data.quantity) =>
            /\ reqs'[s].pc = "validated"
            /\ reqs'[s].obj.error = "ok"
    ]_vars

\* the unlimited agent was granted a further transfer while already owing
\* 40002
C20_Witness ==
    /\ Done(1, "transfer_stock")
    /\ reqs[1].resp.status = 201
    /\ agents[reqs[1].pk].credit_limit = 0
    /\ projectAgentDebt(ledger, reqs[1].pk) >= 60003

----------------------------------------------------------------------------
(* Claims about the rows of the ledgers *)

\* C21: every ledger entry is marked paid exactly when what was paid on it
\* reaches its debt, an entry with the debt 0 included
C21_IsPaidDerived ==
    \A i \in Ids(ledger) :
        ledger[i].is_paid <=> (ledger[i].paid_amount >= ledger[i].debt_amount)

\* the fields of a ledger entry that describe the transfer
Transfer(e) ==
    [agent |-> e.agent, product |-> e.product, quantity |-> e.quantity,
     unit_price |-> e.unit_price, debt_amount |-> e.debt_amount,
     transfer_date |-> e.transfer_date]

\* C22: a committed ledger entry is never deleted and its agent, product,
\* quantity, unit_price, debt_amount and transfer_date never change;
\* paid_amount never decreases, is_paid never goes back to false, and
\* payment_date changes only in the step that makes the entry fully paid,
\* to the created_at of the payment that settles it
C22_LedgerFrame ==
    [][/\ Len(ledger') >= Len(ledger)
       /\ \A i \in Ids(ledger) :
              /\ Transfer(ledger'[i]) = Transfer(ledger[i])
              /\ ledger'[i].paid_amount >= ledger[i].paid_amount
              /\ ledger[i].is_paid => ledger'[i].is_paid
              /\ (ledger'[i].payment_date # ledger[i].payment_date) =>
                     /\ ~ledger[i].is_paid /\ ledger'[i].is_paid
                     /\ ledger'[i].paid_amount >= ledger'[i].debt_amount
                     /\ \E s \in Slots :
                            /\ PaymentCommitted(s)
                            /\ ledger'[i].payment_date =
                                   payments'[reqs'[s].resp.payment].created_at
              /\ (~ledger[i].is_paid /\ ledger'[i].is_paid) =>
                     ledger'[i].payment_date # NULL
    ]_vars

\* the second payment has settled entry 1, which the first one had paid in
\* part, and has paid a part of entry 2, which has no payment date
C22_Witness ==
    /\ Done(1, "record_payment")
    /\ reqs[1].resp.payment = 2
    /\ Len(ledger) >= 2
    /\ ledger[1].is_paid
    /\ ledger[1].payment_date = payments[2].created_at
    /\ payments[1].created_at < payments[2].created_at
    /\ ledger[2].paid_amount > 0
    /\ ~ledger[2].is_paid
    /\ ledger[2].payment_date = NULL

\* C23: the movement log is append-only: every step leaves each committed
\* movement as it is (its product, movement_type and quantity_delta
\* included) and never removes one; corrections come as new movements
C23_MovementsAppendOnly ==
    [][/\ Len(movements') >= Len(movements)
       /\ \A i \in Ids(movements) : movements'[i] = movements[i]
    ]_vars

\* a sale, a transfer and a manual adjustment were logged, and the
\* correction of a reconciliation came as one more movement
C23_Witness ==
    /\ Done(1, "create_corrections")
    /\ reqs[1].resp.status = 200
    /\ reqs[1].resp.corrections_created >= 1
    /\ Len(movements) = MaxMovements
    /\ movements[Len(movements)].reference_id = "RECON"
    /\ \E i \in Ids(movements) :
           /\ i < Len(movements)
           /\ movements[i].product = movements[Len(movements)].product

----------------------------------------------------------------------------
(* Claims about sales and stock adjustments *)

\* C24: a create_sale that answers 201 has appended one Transaction, one
\* item and one SALE movement of -quantity per line, and has lowered the
\* stock of each product by the total quantity of its lines; a create_sale
\* that answers anything else has changed nothing
C24_SaleAllLines ==
    [][\A s \in Slots :
        (reqs'[s].op = "create_sale" /\ reqs'[s].pc = "done" /\ reqs'[s] # reqs[s]) =>
            IF reqs'[s].resp.status = 201
            THEN LET items == reqs'[s].data.items
                     n == Len(movements)
                 IN  /\ Len(transactions') = Len(transactions) + 1
                     /\ Len(transaction_items') = Len(transaction_items) + Len(items)
                     /\ Len(movements') = n + Len(items)
                     /\ \A k \in 1 .. Len(items) :
                            /\ movements'[n + k].product = items[k].product_id
                            /\ movements'[n + k].movement_type = "sale"
                            /\ movements'[n + k].quantity_delta = -items[k].quantity
                     /\ \A p \in ProductIds :
                            products'[p].quantity_in_stock =
                                products[p].quantity_in_stock - SoldQuantity(items, p)
            ELSE UNCHANGED dbVars
    ]_vars

----------------------------------------------------------------------------
(* Claims about the credit limit *)

\* C25: Agent.can_take_more_stock is true exactly when the credit limit is
\* 0 or what the agent still owes (debt_amount - paid_amount over the
\* entries not fully paid) is strictly below the limit
C25_CanTakeMoreStockIff ==
    \A a \in AgentIds :
        can_take_more_stock(agents, ledger, a) <=>
            \/ agents[a].credit_limit = 0
            \/ projectAgentDebt(ledger, a) < agents[a].credit_limit

\* C26: every sale that is saved gets the transaction id of its day whose
\* number is one more than the number of transactions saved earlier that
\* day, written with at least four digits, an id no other transaction has;
\* and every sale that passed validation is saved, however many were saved
\* that day before it
C26_ConsecutiveIds ==
    [][\A s \in Slots :
        (/\ reqs[s].op = "create_sale" /\ reqs[s].pc = "validated"
         /\ reqs'[s].pc = "done") =>
            /\ reqs'[s].resp.status = 201
            /\ Len(transactions') = Len(transactions) + 1
            /\ LET id == transactions'[Len(transactions')].transaction_id
                   today == strftime(now)
                   earlier == {i \in Ids(transactions) :
                                   transactions[i].transaction_id.day = today}
               IN  /\ id.day = today
                   /\ Len(id.seq) >= 4
                   /\ int(id.seq) = Cardinality(earlier) + 1
                   /\ \A i \in Ids(transactions) :
                          transactions[i].transaction_id # id
    ]_vars

----------------------------------------------------------------------------
(* Claims about sessions *)

\* token t is the current token of a user whose session has not expired
Live(t) ==
    \E u \in UserIds :
        users[u].session_token = t /\ users[u].session_expires_at # NULL
                                   /\ now < users[u].session_expires_at

\* request s has just been answered in the name of a user
AuthenticatedAs(s) ==
    /\ reqs'[s] # reqs[s]
    /\ reqs'[s].op \in {"me", "logout", "user_update"}
    /\ reqs'[s].pc = "done"
    /\ "user" \in DOMAIN reqs'[s].resp

\* C27: a request is answered in the name of user u only if its token is
\* not empty and is u's session_token, u is active and the clock is before
\* u's session_expires_at; and a token that has been issued and is no
\* longer any user's unexpired token (after a logout, the expiry or a later
\* login of its user) never becomes one again, so it is never accepted again
C27_OnlyCurrentToken ==
    [][/\ \A s \in Slots :
              AuthenticatedAs(s) =>
                  LET t == reqs'[s].data.token
                      u == reqs'[s].resp.user
                  IN  /\ t # NoToken
                      /\ users[u].session_token = t
                      /\ users[u].is_active
                      /\ now < users[u].session_expires_at
                      /\ Live(t)
       /\ \A t \in 1 .. issued : ~Live(t) => ~Live(t)'
    ]_vars

\* the owner's first token is refused after the owner logged in again, the
\* cashier's after the logout, and the owner's second one is still accepted
\* at a later instant
C27_Witness ==
    /\ Done(1, "me")
    /\ reqs[1].resp.status = 401
    /\ reqs[1].data.token = 1
    /\ issued = 3
    /\ users[1].session_token = 3
    /\ users[2].session_token = NoToken
    /\ Live(3)
    /\ now > 0

\* C29: when adjust_stock ends, with a response or with an exception after
\* its first write, its ADJUSTMENT movement is in the log only if the stock
\* counter of the product has changed by the same quantity_delta
C29_AdjustAllOrNothing ==
    [][\A s \in Slots :
        (/\ reqs[s].op = "adjust_stock" /\ reqs[s].pc = "moved"
         /\ reqs'[s].pc = "done") =>
            LET r == reqs[s]
                id == r.obj.movement_id
            IN  (/\ id \in Ids(movements')
                 /\ movements'[id].product = r.pk
                 /\ movements'[id].movement_type = "adjustment"
                 /\ movements'[id].quantity_delta = r.data.quantity_delta) =>
                    products'[r.pk].quantity_in_stock =
                        r.obj.product.quantity_in_stock + r.data.quantity_delta
    ]_vars

----------------------------------------------------------------------------
(* Claims about the counts of a reconciliation and about corrections *)

\* the counted fields of the items of reconciliation R
CountsOf(R) ==
    [p \in ProductIds |->
        [exists |-> R.items[p].exists, system_count |-> R.items[p].system_count,
         physical_count |-> R.items[p].physical_count,
         variance |-> R.items[p].variance,
         has_discrepancy |-> R.items[p].has_discrepancy]]

\* C28: once the reconciliation is completed no step creates an item of it
\* or changes the system_count, physical_count, variance or has_discrepancy
\* of one, whatever requests run beside each other and whatever happens to
\* the stock of the counted products
C28_CountsFrozen ==
    [][recon.status \in {"completed", "approved", "rejected"} =>
           CountsOf(recon') = CountsOf(recon)
    ]_vars

\* the movements appended in this step for product p
Appended(p) ==
    {i \in Ids(movements') \ Ids(movements) : movements'[i].product = p}

\* C30: a create_corrections that answers 200 has, for each item with
\* has_discrepancy and without correction_created, appended one ADJUSTMENT
\* movement of the item's variance, added the variance to the stock of the
\* product and set correction_created and correction_approved; it has left
\* every other item and product alone, items of variance 0 among them, and
\* reports the number of movements it appended; one that raises has changed
\* nothing
C30_CorrectionsExact ==
    [][\A s \in Slots :
        (/\ reqs[s].op = "create_corrections" /\ reqs[s].pc = "tx"
         /\ reqs'[s].pc = "done") =>
            IF reqs'[s].resp.status # 200 THEN UNCHANGED dbVars
            ELSE /\ reqs'[s].resp.corrections_created
                        = Len(movements') - Len(movements)
                 /\ \A i \in Ids(movements) : movements'[i] = movements[i]
                 /\ recon'.status = recon.status
                 /\ \A p \in ProductIds :
                        LET item == recon.items[p]
                        IN  IF /\ item.exists /\ item.has_discrepancy
                               /\ ~item.correction_created
                            THEN /\ Cardinality(Appended(p)) = 1
                                 /\ \A i \in Appended(p) :
                                        /\ movements'[i].movement_type = "adjustment"
                                        /\ movements'[i].quantity_delta = item.variance
                                 /\ products'[p] =
                                        [products[p] EXCEPT !.quantity_in_stock =
                                                                @ + item.variance]
                                 /\ recon'.items[p] =
                                        [item EXCEPT !.correction_created = TRUE,
                                                     !.correction_approved = TRUE]
                            ELSE /\ Appended(p) = {}
                                 /\ products'[p] = products[p]
                                 /\ recon'.items[p] = item
    ]_vars

\* product 1 was corrected by its variance while product 2, counted without
\* a variance, got no movement and kept its flags
C30_Witness ==
    /\ Done(1, "create_corrections")
    /\ reqs[1].resp.status = 200
    /\ reqs[1].resp.corrections_created = 1
    /\ recon.items[1].variance # 0
    /\ recon.items[1].correction_created /\ recon.items[1].correction_approved
    /\ recon.items[2].exists /\ recon.items[2].variance = 0
    /\ ~recon.items[2].correction_created /\ ~recon.items[2].correction_approved
    /\ movements[Len(movements)].reference_id = "RECON"
    /\ movements[Len(movements)].quantity_delta = recon.items[1].variance

----------------------------------------------------------------------------
(* Claims about requests that run beside each other *)

\* C31: when two record_payment requests for the same agent have both been
\* answered 201, what is paid on the agent's entries is what the two
\* responses report as applied together, and no entry is paid beyond its
\* debt
C31_PaymentsSerial ==
    (\A s \in Slots : Done(s, "record_payment") /\ reqs[s].resp.status = 201) =>
        /\ PaidTotal(ledger, 1)
               = SumSet(Slots, [s \in Slots |-> reqs[s].resp.amount_applied])
        /\ \A i \in Ids(ledger) : ledger[i].paid_amount <= ledger[i].debt_amount

----------------------------------------------------------------------------
(* Claims about the reject transition *)

\* C32: a reconciliation becomes rejected only from in_progress or
\* completed: no operation of ReconciliationViewSet rejects an approved
\* one
C32_RejectNotFromApproved ==
    [][(recon'.status = "rejected" /\ recon.status # "rejected") =>
           recon.status \in {"in_progress", "completed"}
    ]_vars

----------------------------------------------------------------------------
(* Claims about the agent a transfer is checked against *)

\* C33: the ledger entry of an accepted transfer_stock belongs to the
\* agent on whom the active-agent check and the credit-limit check of the
\* request were made
C33_CheckedAgentReceives ==
    \A s \in Slots :
        (Done(s, "transfer_stock") /\ reqs[s].resp.status = 201) =>
            ledger[reqs[s].resp.ledger_entry].agent = reqs[s].data.agent_id

----------------------------------------------------------------------------
(* Claims about the stock counter under overlapping requests *)

\* C34: whatever transfers and sales run, one after another or
\* overlapping, the quantity_in_stock of every product stays at 0 or above
C34_StockNonNegative ==
    \A p \in ProductIds : products[p].quantity_in_stock >= 0

\* a transfer and a sale of product 1 that both passed the stock check on
\* the same 2 units have both been answered 201, and together they took 3
C34_Witness ==
    /\ Done(1, "transfer_stock") /\ reqs[1].resp.status = 201
    /\ reqs[1].data.product_id = 1 /\ reqs[1].data.quantity = 2
    /\ Done(2, "create_sale") /\ reqs[2].resp.status = 201
    /\ reqs[2].data.items = <<Line(1, 1)>>
    /\ Len(movements) = 2

----------------------------------------------------------------------------
(* Claims about the aging report as a partition *)

\* the buckets whose window holds the transfer date of entry i now
BucketsOf(i) == {b \in Buckets : Window(b, ledger[i].transfer_date, now)}

\* C35: at every moment each unpaid entry lies in the window of exactly one
\* of the five buckets, and in every debt_summary response the five
\* buckets add up to the total_debt of the same response, so that paid
\* entries are in none
C35_BucketsPartition ==
    /\ \A i \in Ids(ledger) : ~ledger[i].is_paid => Cardinality(BucketsOf(i)) = 1
    /\ \A s \in Slots :
           Done(s, "debt_summary") =>
               SumSet(Buckets, reqs[s].resp.debt_by_age) = reqs[s].resp.total_debt

\* a summary has been answered for an agent with a paid entry and unpaid
\* entries in two buckets, one of them exactly 90 days old
C35_Witness ==
    /\ Done(1, "debt_summary")
    /\ \E i \in Ids(ledger) : ledger[i].agent = 1 /\ ledger[i].is_paid
    /\ \E i \in Ids(ledger) : /\ ~ledger[i].is_paid
                              /\ ledger[i].transfer_date = now - days(90)
    /\ reqs[1].resp.debt_by_age["61-90"] > 0
    /\ reqs[1].resp.debt_by_age["0-7"] > 0

----------------------------------------------------------------------------
(* Claims about the stock a correction leaves *)

\* C36: when create_corrections succeeds, every counted product whose
\* correction had not been made yet holds its physical_count plus the net
\* delta of the movements logged on it since the count (all the movements
\* there are, in a shop that had none when counting was closed)
C36_StockIsCountPlusDelta ==
    [][\A s \in Slots :
        (/\ reqs[s].op = "create_corrections" /\ reqs[s].pc = "tx"
         /\ reqs'[s].pc = "done" /\ reqs'[s].resp.status = 200) =>
            \A p \in ProductIds :
                (recon.items[p].exists /\ ~recon.items[p].correction_created) =>
                    products'[p].quantity_in_stock
                        = recon.items[p].physical_count + projectStock(movements, p)
    ]_vars

----------------------------------------------------------------------------
(* Claims about the bounds of paid_amount *)

\* C37: whatever payments have been recorded, with or without target
\* entries, every ledger entry has 0 <= paid_amount <= debt_amount
C37_PaidWithinDebt ==
    \A i \in Ids(ledger) :
        0 <= ledger[i].paid_amount /\ ledger[i].paid_amount <= ledger[i].debt_amount

\* a payment of 700 aimed at entry 2, of which 150 of 200 were paid, has
\* applied the 50 that were left
C37_Witness ==
    /\ Done(1, "record_payment") /\ reqs[1].resp.status = 201
    /\ reqs[1].data.amount = 700 /\ reqs[1].data.ledger_entries = {2}
    /\ reqs[1].resp.amount_applied = 50
    /\ ledger[2].debt_amount = 200 /\ ledger[2].paid_amount = 200

----------------------------------------------------------------------------
(* Claims about the movements behind every change of the counter *)

\* the step is the product.save() of an adjust_stock request on product p
\* that has logged its movement, of the same delta as the change
SavesAdjustment(p) ==
    \E s \in Slots :
        /\ reqs[s].op = "adjust_stock" /\ reqs[s].pc = "moved" /\ reqs[s].pk = p
        /\ movements' = movements
        /\ movements[reqs[s].obj.movement_id].product = p
        /\ movements[reqs[s].obj.movement_id].quantity_delta
               = products'[p].quantity_in_stock - products[p].quantity_in_stock

\* C38: a step that changes the quantity_in_stock of a product appends
\* movements of that product whose deltas sum to the change, in the same
\* step or, for adjust_stock, in the same request; a step of record_payment
\* changes no product and appends no movement
C38_EveryChangeLogged ==
    [][/\ \A p \in ProductIds :
            products'[p].quantity_in_stock # products[p].quantity_in_stock =>
                \/ projectStock(movements', p) - projectStock(movements, p)
                       = products'[p].quantity_in_stock - products[p].quantity_in_stock
                \/ SavesAdjustment(p)
       /\ (\E s \in Slots : reqs[s].op = "record_payment" /\ reqs[s].pc = "tx"
                               /\ reqs'[s].pc = "done") =>
              UNCHANGED <<products, movements>>
    ]_vars

----------------------------------------------------------------------------
(* Claims about the response of transfer_stock *)

\* C39: the new_agent_debt of a transfer_stock answered 201 is the
\* total_debt of the receiving agent once the transfer is committed
C39_NewAgentDebtIsTotal ==
    [][\A s \in Slots :
        (/\ reqs[s].op = "transfer_stock" /\ reqs[s].pc = "validated"
         /\ reqs'[s].pc = "done" /\ reqs'[s].resp.status = 201) =>
            reqs'[s].resp.new_agent_debt = total_debt(ledger', reqs[s].pk)
    ]_vars

====
